---- MODULE Spec2Model ----
(***************************************************************************)
(* A model of the SecurePass backend: the authentication service, the      *)
(* vault service, the sharing service and the HTTP routes in front of      *)
(* them.  The persistent store (Prisma/PostgreSQL) is the state; one       *)
(* action is one request handler, or, in the specifications that study     *)
(* interleavings, one step of a handler between two awaits.                *)
(*                                                                         *)
(* Text is modelled as a sequence of one-character strings, so that the    *)
(* character tests of the code are computed.  Cryptography is symbolic:    *)
(* a ciphertext, a tag, a digest or an encoding is a term that names what  *)
(* it was made from, and only the matching operation takes it apart.       *)
(***************************************************************************)
EXTENDS Integers, Sequences, FiniteSets, TLC

VARIABLES
    users,          \* table User: id -> row
    oauthProviders, \* table OAuthProvider: set of rows
    refreshTokens,  \* table RefreshToken: set of rows
    vaultEntries,   \* table VaultEntry: id -> row
    sharedLinks,    \* table SharedLink: id -> row
    auditLogs,      \* table AuditLog: sequence of rows, in insertion order
    now,            \* the clock (new Date())
    ids,            \* what the random and id generators have handed out so far
    req,            \* the request served by the last step
    resp,           \* the response of the last step
    procs,          \* requests in flight: position and locals of each handler
    hist,           \* history: what clients were given and what they did
    collections,    \* table Collection: id -> row
    tags,           \* table Tag: id -> row
    vaultEntryTags  \* table VaultEntryTag: set of rows

vars == <<users, oauthProviders, refreshTokens, vaultEntries, sharedLinks,
          auditLogs, now, ids, req, resp, procs, hist, collections, tags,
          vaultEntryTags>>

\* the tables that organize entries
orgVars == <<collections, tags, vaultEntryTags>>

\* no collection and no tag yet
NoOrganization ==
    /\ collections = <<>>
    /\ tags = <<>>
    /\ vaultEntryTags = {}

-----------------------------------------------------------------------------
(* Bounds of the model *)

MaxEntries == 2
MaxAudit == 2
MaxTime == 2
MaxLinks == 1
MaxTokens == 2
MaxUsers == 2
MaxProcs == 2
MaxVaultTime == 1
MaxAccesses == 3
MaxShareAudit == 3

-----------------------------------------------------------------------------
(* Values *)

Null == "null"
Undef == "undefined"
NullTime == 0 - 1
UndefPw == <<"undefined">>
NoHash == <<>>
NoWrappedKey == <<>>
NoReq == [op |-> "none"]
NoResp == [status |-> 0]
NoDetails == [none |-> TRUE]

Min(a, b) == IF a <= b THEN a ELSE b

LowerChars == {"a", "b", "c", "d", "e", "f", "g", "h", "i", "j", "k", "l", "m",
               "n", "o", "p", "q", "r", "s", "t", "u", "v", "w", "x", "y", "z"}
UpperChars == {"A", "B", "C", "D", "E", "F", "G", "H", "I", "J", "K", "L", "M",
               "N", "O", "P", "Q", "R", "S", "T", "U", "V", "W", "X", "Y", "Z"}
DigitChars == {"0", "1", "2", "3", "4", "5", "6", "7", "8", "9"}

\* RegExp.test: some character of the text is in the class
Test(class, text) == \E i \in 1..Len(text) : text[i] \in class
TestNot(class, text) == \E i \in 1..Len(text) : text[i] \notin class

\* the passwords of the tests and of the specification's scenarios
PwEmpty == <<>>
PwAaa == <<"a", "a", "a">>
PwReuse == <<"r", "e", "u", "s", "e", "-", "m", "e">>
PwHunter == <<"H", "u", "n", "t", "e", "r", "2", "A", "!">>
PwDigits == <<"a", "b", "c", "d", "e", "f", "g", "h", "1", "2", "3", "4">>
PwStrong == <<"S", "t", "r", "o", "n", "g", "P", "a", "s", "s", "w", "o", "r", "d",
              "1", "2", "3", "!", "@", "#">>

-----------------------------------------------------------------------------
(* utils/encryption.ts *)

MasterKey == <<"key", "master">>

\* Buffer.toString('base64') and Buffer.from(.., 'base64')
ToBase64(bytes) == <<"b64", bytes>>
FromBase64(text) == IF Len(text) = 2 /\ text[1] = "b64" THEN text[2] ELSE <<"bytes", text>>

\* aes-256-gcm: the ciphertext and the tag of a plaintext under a key and a nonce
GcmCiphertext(key, iv, plaintext) == <<"ct", key, iv, plaintext>>
GcmTag(key, iv, ciphertext) == <<"tag", key, iv, ciphertext>>
\* an auth tag cut to its first n bytes, and the lengths setAuthTag takes for GCM
\* when createDecipheriv is given no authTagLength
TAG_LENGTH == 16
GcmTagLengths == {4, 8, 12, 13, 14, 15, TAG_LENGTH}
TagPrefix(tag, n) == IF n = TAG_LENGTH THEN tag ELSE <<"prefix", n, tag>>
IsPrefix(tag) == Len(tag) = 3 /\ tag[1] = "prefix"
TagLength(tag) == IF IsPrefix(tag) THEN tag[2] ELSE TAG_LENGTH
\* decipher.setAuthTag(tag) and decipher.final(): throws unless the tag has one of
\* the lengths of GCM and is the tag of this key, nonce and ciphertext, compared
\* over the bytes given
GcmOpen(key, iv, tag, ciphertext) ==
    IF /\ TagLength(tag) \in GcmTagLengths
       /\ tag = TagPrefix(GcmTag(key, iv, ciphertext), TagLength(tag))
       /\ Len(ciphertext) = 4 /\ ciphertext[1] = "ct"
       /\ ciphertext[2] = key /\ ciphertext[3] = iv
    THEN [ok |-> TRUE, value |-> ciphertext[4]]
    ELSE [ok |-> FALSE]

generateUserKey(n) == <<"key", n>>

wrapKey(userKey, masterKey, iv) ==
    LET ciphertext == GcmCiphertext(masterKey, iv, userKey)
        tag == GcmTag(masterKey, iv, ciphertext)
    IN ToBase64(<<iv, tag, ciphertext>>)

\* unwrapKey: the blob is cut at fixed offsets, the tag being its bytes 12 to 27
unwrapKey(wrappedB64, masterKey) ==
    LET data == FromBase64(wrappedB64)
    IN IF Len(data) = 3 /\ TagLength(data[2]) = TAG_LENGTH
       THEN GcmOpen(masterKey, data[1], data[2], data[3])
       ELSE [ok |-> FALSE]

\* cipher.update(plaintext, 'utf8') throws a TypeError when plaintext is no string
encryptVaultValue(plaintext, userKey, iv) ==
    IF plaintext = UndefPw
    THEN [ok |-> FALSE]
    ELSE LET ciphertext == GcmCiphertext(userKey, iv, plaintext)
         IN [ok |-> TRUE,
             ciphertext |-> ToBase64(ciphertext),
             iv |-> ToBase64(iv),
             tag |-> ToBase64(GcmTag(userKey, iv, ciphertext))]

decryptVaultValue(ciphertextB64, ivB64, tagB64, userKey) ==
    GcmOpen(userKey, FromBase64(ivB64), FromBase64(tagB64), FromBase64(ciphertextB64))

hashTokenId(token) == token
hashToken(token) == <<"sha256", token>>

\* crypto.randomBytes(32).toString('hex'): the n-th token handed out
generateSecureToken(n) == <<"tok", n>>

-----------------------------------------------------------------------------
(* services/vaultService.ts *)

getUserKey(userId) ==
    IF userId \notin DOMAIN users THEN [ok |-> FALSE]
    ELSE IF users[userId].wrappedKey = NoWrappedKey THEN [ok |-> FALSE]
    ELSE unwrapKey(users[userId].wrappedKey, MasterKey)

calculateStrengthNoCap(password) ==
    (IF Len(password) >= 8 THEN 1 ELSE 0)
    + (IF Len(password) >= 12 THEN 1 ELSE 0)
    + (IF Test(LowerChars, password) /\ Test(UpperChars, password) THEN 1 ELSE 0)
    + (IF Test(DigitChars, password) THEN 1 ELSE 0)
    + (IF TestNot(LowerChars \cup UpperChars \cup DigitChars, password) THEN 1 ELSE 0)

calculateStrength(password) ==
    LET s1 == IF Len(password) >= 8 THEN 1 ELSE 0
        s2 == IF Len(password) >= 12 THEN 1 ELSE 0
        s3 == IF Test(LowerChars, password) /\ Test(UpperChars, password) THEN 1 ELSE 0
        s4 == IF Test(DigitChars, password) THEN 1 ELSE 0
        s5 == IF TestNot(LowerChars \cup UpperChars \cup DigitChars, password) THEN 1 ELSE 0
    IN Min(s1 + s2 + s3 + s4 + s5, 4)

\* a || b for text fields: the empty text and undefined are falsy
OrElse(value, default) == IF value \in {Undef, Null, ""} THEN default ELSE value
\* an optional flag of a request body: "true", "false" or undefined
OrFalse(value) == value = "true"

formatEntryResponse(id, entry, decryptedPassword) ==
    [id |-> id, title |-> entry.title, username |-> entry.username,
     password |-> decryptedPassword, site |-> entry.site, notes |-> entry.notes,
     collectionId |-> entry.collectionId, isFavorite |-> entry.isFavorite,
     isPinned |-> entry.isPinned, strength |-> entry.strength,
     createdAt |-> entry.createdAt, updatedAt |-> entry.updatedAt]

\* the foreign key VaultEntry_collectionId_fkey: null, or the id of a row
collectionExists(collectionId) ==
    collectionId = Null \/ collectionId \in DOMAIN collections

\* the row createVaultEntry inserts, or the throw (no key, no string to encrypt,
\* a title or a collectionId Prisma refuses); the requests carry no tags, so notes
\* is input.notes
createVaultEntry(userId, input, iv) ==
    LET userKey == getUserKey(userId)
        enc == encryptVaultValue(input.password, userKey.value, iv)
    IN IF ~userKey.ok THEN [ok |-> FALSE]
       ELSE IF ~enc.ok THEN [ok |-> FALSE]
       ELSE IF input.title = Undef THEN [ok |-> FALSE]
       ELSE IF ~collectionExists(OrElse(input.collectionId, Null)) THEN [ok |-> FALSE]
       ELSE [ok |-> TRUE,
             row |-> [userId |-> userId,
                      title |-> input.title,
                      username |-> OrElse(input.username, ""),
                      site |-> OrElse(input.site, Null),
                      notes |-> OrElse(input.notes, Null),
                      passwordCiphertext |-> enc.ciphertext,
                      iv |-> enc.iv,
                      tag |-> enc.tag,
                      collectionId |-> OrElse(input.collectionId, Null),
                      isFavorite |-> OrFalse(input.isFavorite),
                      isPinned |-> OrFalse(input.isPinned),
                      strength |-> calculateStrength(input.password),
                      lastUsedAt |-> NullTime,
                      createdAt |-> now,
                      updatedAt |-> now]]

\* prisma.vaultEntry.findFirst({ where: { id, userId } })
findEntryAnyOwner(userId, entryId) ==
    IF entryId \in DOMAIN vaultEntries THEN {entryId} ELSE {}

findEntry(userId, entryId) ==
    IF entryId \in DOMAIN vaultEntries /\ vaultEntries[entryId].userId = userId
    THEN {entryId} ELSE {}

UndefNum == 0 - 999

\* the where clause listVaultEntries builds from its options
FlagIs(option, flag) == option = Undef \/ (option = "true") = flag

listWhere(userId, options, entry) ==
    /\ entry.userId = userId
    /\ options.collectionId = Undef \/ entry.collectionId = options.collectionId
    /\ FlagIs(options.isFavorite, entry.isFavorite)
    /\ FlagIs(options.isPinned, entry.isPinned)
    /\ options.strengthMin = UndefNum \/ entry.strength >= options.strengthMin
    /\ options.strengthMax = UndefNum \/ entry.strength <= options.strengthMax

\* every order of the rows S that an ORDER BY with the strict order before allows:
\* rows equal on all keys come in any order
Orderings(S, before) ==
    {s \in [1..Cardinality(S) -> S] :
        /\ \A i, j \in 1..Cardinality(S) : i # j => s[i] # s[j]
        /\ \A i, j \in 1..Cardinality(S) : i < j => <<s[j], s[i]>> \notin before}

BoolRank(b) == IF b THEN 1 ELSE 0

\* orderBy: [{ isPinned: 'desc' }, { isFavorite: 'desc' }, { updatedAt: 'desc' }]
listOrderBefore(a, b) ==
    LET x == vaultEntries[a]
        y == vaultEntries[b]
    IN \/ BoolRank(x.isPinned) > BoolRank(y.isPinned)
       \/ /\ x.isPinned = y.isPinned
          /\ BoolRank(x.isFavorite) > BoolRank(y.isFavorite)
       \/ /\ x.isPinned = y.isPinned
          /\ x.isFavorite = y.isFavorite
          /\ x.updatedAt > y.updatedAt

\* a list item made of the whole row, as a findMany without select returns it
listItemWholeRow(id) == [id |-> id] @@ vaultEntries[id]

listItem(id) ==
    LET entry == vaultEntries[id]
    IN [id |-> id, title |-> entry.title, username |-> entry.username,
        site |-> entry.site, collectionId |-> entry.collectionId,
        isFavorite |-> entry.isFavorite, isPinned |-> entry.isPinned,
        strength |-> entry.strength, createdAt |-> entry.createdAt,
        updatedAt |-> entry.updatedAt]

\* the results listVaultEntries may return: one per order the store may choose
listVaultEntries(userId, options) ==
    LET found == {id \in DOMAIN vaultEntries : listWhere(userId, options, vaultEntries[id])}
        before == {o \in found \X found : listOrderBefore(o[1], o[2])}
    IN {[i \in DOMAIN order |-> listItem(order[i])] : order \in Orderings(found, before)}

\* getVaultEntry: null, a throw, or the decrypted entry, with the table after it
getVaultEntry(userId, entryId) ==
    IF findEntry(userId, entryId) = {}
    THEN [kind |-> "null", table |-> vaultEntries]
    ELSE LET entry == vaultEntries[entryId]
             userKey == getUserKey(userId)
             password == decryptVaultValue(entry.passwordCiphertext, entry.iv,
                                           entry.tag, userKey.value)
         IN IF ~userKey.ok THEN [kind |-> "throw", table |-> vaultEntries]
            ELSE IF ~password.ok THEN [kind |-> "throw", table |-> vaultEntries]
            ELSE [kind |-> "ok",
                  table |-> [vaultEntries EXCEPT ![entryId].lastUsedAt = now],
                  entry |-> formatEntryResponse(entryId, entry, password.value)]

IfDefined(value, old) == IF value = Undef THEN old ELSE value
IfDefinedOrNull(value, old) == IF value = Undef THEN old ELSE OrElse(value, Null)
IfDefinedFlag(value, old) == IF value = Undef THEN old ELSE value = "true"

\* an update that stamps the row and answers with the secret of the patch, the
\* stored ciphertext left as it was
updateVaultEntryKeepsSecret(userId, entryId, input, iv) ==
    IF findEntry(userId, entryId) = {}
    THEN [kind |-> "null", table |-> vaultEntries]
    ELSE [kind |-> "ok",
          table |-> [vaultEntries EXCEPT ![entryId].updatedAt = now],
          entry |-> formatEntryResponse(entryId, vaultEntries[entryId], input.password)]

updateVaultEntry(userId, entryId, input, iv) ==
    IF findEntry(userId, entryId) = {}
    THEN [kind |-> "null", table |-> vaultEntries]
    ELSE LET existing == vaultEntries[entryId]
             userKey == getUserKey(userId)
             data == [existing EXCEPT
                        !.title = IfDefined(input.title, @),
                        !.username = IfDefined(input.username, @),
                        !.site = IfDefinedOrNull(input.site, @),
                        !.notes = IfDefinedOrNull(input.notes, @),
                        !.collectionId = IfDefined(input.collectionId, @),
                        !.isFavorite = IfDefinedFlag(input.isFavorite, @),
                        !.isPinned = IfDefinedFlag(input.isPinned, @),
                        !.updatedAt = now]
             enc == encryptVaultValue(input.password, userKey.value, iv)
             row == IF input.password = UndefPw
                    THEN data
                    ELSE [data EXCEPT
                            !.passwordCiphertext = enc.ciphertext,
                            !.iv = enc.iv,
                            !.tag = enc.tag,
                            !.strength = calculateStrength(input.password)]
             password == decryptVaultValue(row.passwordCiphertext, row.iv, row.tag,
                                           userKey.value)
         IN IF ~userKey.ok THEN [kind |-> "throw", table |-> vaultEntries]
            ELSE IF ~collectionExists(row.collectionId)
            THEN [kind |-> "throw", table |-> vaultEntries]
            ELSE IF ~password.ok
            THEN [kind |-> "throw", table |-> [vaultEntries EXCEPT ![entryId] = row]]
            ELSE [kind |-> "ok",
                  table |-> [vaultEntries EXCEPT ![entryId] = row],
                  entry |-> formatEntryResponse(entryId, row, password.value)]

\* deleteMany({ where: { id, userId } }): the ids deleted
deleteVaultEntry(table, userId, entryId) ==
    {id \in DOMAIN table : id = entryId /\ table[id].userId = userId}

Without(table, gone) == [id \in DOMAIN table \ gone |-> table[id]]

\* getPasswordHealth: the counts, or a throw when the caller has no key
NinetyDays == 2

\* a decryption that takes the plaintext without checking the auth tag
decryptedOfUnchecked(entry, userKey) ==
    [ok |-> TRUE, value |-> FromBase64(entry.passwordCiphertext)[4]]

decryptedOf(entry, userKey) ==
    decryptVaultValue(entry.passwordCiphertext, entry.iv, entry.tag, userKey)

getPasswordHealth(userId) ==
    LET userKey == getUserKey(userId)
        mine == {id \in DOMAIN vaultEntries : vaultEntries[id].userId = userId}
        plain(id) == decryptedOf(vaultEntries[id], userKey.value)
        \* the entries that end in the catch, or in the `!password` branch
        none == {id \in mine : ~plain(id).ok \/ plain(id).value = <<>>}
        rated == mine \ none
        sameAs(id) == {other \in rated : plain(other).value = plain(id).value}
    IN IF ~userKey.ok THEN [ok |-> FALSE]
       ELSE [ok |-> TRUE,
             health |->
               [total |-> Cardinality(mine),
                strong |-> Cardinality({id \in rated : vaultEntries[id].strength >= 4}),
                medium |-> Cardinality({id \in rated : vaultEntries[id].strength \in 2..3}),
                weak |-> Cardinality({id \in rated : vaultEntries[id].strength < 2}),
                reused |-> Cardinality({id \in rated : Cardinality(sameAs(id)) > 1}),
                old |-> Cardinality({id \in rated :
                                        vaultEntries[id].createdAt < now - NinetyDays}),
                noPassword |-> Cardinality(none)]]

\* orderBy: { createdAt: 'desc' }
exportOrderBefore(a, b) == vaultEntries[a].createdAt > vaultEntries[b].createdAt

\* getFullVault: the results it may return, or a throw when the caller has no key
getFullVault(userId) ==
    LET userKey == getUserKey(userId)
        mine == {id \in DOMAIN vaultEntries : vaultEntries[id].userId = userId}
        plain(id) == decryptedOf(vaultEntries[id], userKey.value)
        item(id) == formatEntryResponse(id, vaultEntries[id],
                                        IF plain(id).ok THEN plain(id).value ELSE <<>>)
    IN IF ~userKey.ok THEN {}
       ELSE {[i \in DOMAIN order |-> item(order[i])] :
                order \in Orderings(mine, {o \in mine \X mine : exportOrderBefore(o[1], o[2])})}

\* importVaultEntries: the rows inserted, in order; an entry whose createVaultEntry
\* throws is skipped
\* an import that inserts all entries or none
importVaultEntriesAllOrNothing(userId, entries, ivs) ==
    IF \A i \in DOMAIN entries : createVaultEntry(userId, entries[i], ivs[i]).ok
    THEN [i \in DOMAIN entries |-> createVaultEntry(userId, entries[i], ivs[i]).row]
    ELSE <<>>

RECURSIVE importVaultEntries(_, _, _)
importVaultEntries(userId, entries, ivs) ==
    IF entries = <<>> THEN <<>>
    ELSE LET made == createVaultEntry(userId, Head(entries), Head(ivs))
             rest == importVaultEntries(userId, Tail(entries), Tail(ivs))
         IN IF made.ok THEN <<made.row>> \o rest ELSE rest

\* the table with rows inserted under the next ids
Inserted(table, first, rows) ==
    [id \in DOMAIN table \cup (first + 1)..(first + Len(rows)) |->
        IF id \in DOMAIN table THEN table[id] ELSE rows[id - first]]

-----------------------------------------------------------------------------
(* services/auditService.ts *)

\* logAction: the row prisma.auditLog.create inserts
\* a row that records every action as a create
logActionAsCreate(userId, action, entryId, entryTitle, details) ==
    [userId |-> userId, action |-> "create", entryId |-> entryId,
     entryTitle |-> entryTitle, details |-> details, createdAt |-> now]

logAction(userId, action, entryId, entryTitle, details) ==
    [userId |-> userId, action |-> action, entryId |-> entryId,
     entryTitle |-> entryTitle, details |-> details, createdAt |-> now]

AuditPageSize == 50

auditLogResponse(n) ==
    LET log == auditLogs[n]
    IN [id |-> n, action |-> log.action, entryId |-> log.entryId,
        entryTitle |-> log.entryTitle, details |-> log.details,
        createdAt |-> log.createdAt]

\* getAuditLogs without options: the pages it may return, latest first, and the
\* count of the rows of the caller
getAuditLogs(userId) ==
    LET mine == {n \in DOMAIN auditLogs : auditLogs[n].userId = userId}
        before == {o \in mine \X mine :
                      auditLogs[o[1]].createdAt > auditLogs[o[2]].createdAt}
    IN {[logs |-> [i \in 1..Min(Cardinality(mine), AuditPageSize) |->
                      auditLogResponse(order[i])],
         total |-> Cardinality(mine)] : order \in Orderings(mine, before)}

-----------------------------------------------------------------------------
(* utils/validation.ts, middleware/validate.ts *)

\* createPasswordSchema: a title and a password of at least one character
createPasswordSchema(body) ==
    /\ body.title \notin {Undef, ""}
    /\ body.password # UndefPw
    /\ Len(body.password) >= 1

\* updatePasswordSchema: every field optional, title and password not empty
updatePasswordSchema(body) ==
    /\ body.title # ""
    /\ body.password = UndefPw \/ Len(body.password) >= 1

ValidationFailed == [status |-> 400, body |-> [error |-> "Validation failed"]]

-----------------------------------------------------------------------------
(* routes/passwords.ts: every route runs behind requireAuth, as userId *)

authVars == <<users, oauthProviders, refreshTokens>>

Status(status, body) == [status |-> status, body |-> body]
NotFoundEntry == Status(404, [error |-> "Password entry not found"])

\* a request body with no field set
NoBody ==
    [title |-> Undef, username |-> Undef, password |-> UndefPw, site |-> Undef,
     notes |-> Undef, collectionId |-> Undef, isFavorite |-> Undef,
     isPinned |-> Undef, strength |-> UndefNum]

\* a log that keeps the latest row only
LoggedLatestOnly(row) == <<row>>

Logged(row) == Append(auditLogs, row)

\* POST /api/passwords and POST /api/passwords/direct-save after validation
SaveEntry(userId, body, iv, message) ==
    LET made == createVaultEntry(userId, body, iv)
        id == ids.entry + 1
    IN IF ~made.ok
       THEN /\ resp' = Status(500, [error |-> "Failed"])
            /\ UNCHANGED <<vaultEntries, auditLogs, ids>>
       ELSE /\ vaultEntries' = Inserted(vaultEntries, ids.entry, <<made.row>>)
            /\ ids' = [ids EXCEPT !.entry = id]
            /\ auditLogs' = Logged(logAction(userId, "create", id, made.row.title, NoDetails))
            /\ resp' = Status(201, [message |-> message,
                                    entry |-> formatEntryResponse(id, made.row, body.password)])

\* POST /api/passwords
PostPassword(userId, body, iv) ==
    /\ ids.entry < MaxEntries
    /\ req' = [op |-> "create", userId |-> userId, body |-> body]
    /\ IF ~createPasswordSchema(body)
       THEN /\ resp' = ValidationFailed
            /\ UNCHANGED <<vaultEntries, auditLogs, ids>>
       ELSE SaveEntry(userId, body, iv, "Password created successfully")
    /\ UNCHANGED <<orgVars, authVars, sharedLinks, now, procs, hist>>

\* POST /api/passwords/direct-save
PostDirectSave(userId, body, iv) ==
    /\ ids.entry < MaxEntries
    /\ req' = [op |-> "direct-save", userId |-> userId, body |-> body]
    /\ SaveEntry(userId, body, iv, "Saved to vault")
    /\ UNCHANGED <<orgVars, authVars, sharedLinks, now, procs, hist>>

\* POST /api/passwords/import; body.isArray tells whether body.entries is an array
PostImport(userId, body, ivs) ==
    /\ req' = [op |-> "import", userId |-> userId, body |-> body]
    /\ IF ~body.isArray
       THEN /\ resp' = Status(400, [error |-> "Invalid format: entries must be an array"])
            /\ UNCHANGED <<vaultEntries, auditLogs, ids>>
       ELSE LET rows == importVaultEntries(userId, body.entries, ivs)
            IN /\ ids.entry + Len(rows) <= MaxEntries
               /\ vaultEntries' = Inserted(vaultEntries, ids.entry, rows)
               /\ ids' = [ids EXCEPT !.entry = @ + Len(rows)]
               /\ auditLogs' = Logged(logAction(userId, "import", 0, Undef,
                                                [count |-> Len(rows)]))
               /\ resp' = Status(200, [count |-> Len(rows)])
    /\ UNCHANGED <<orgVars, authVars, sharedLinks, now, procs, hist>>

\* GET /api/passwords
GetPasswords(userId, options) ==
    /\ req' = [op |-> "list", userId |-> userId, options |-> options]
    /\ \E entries \in listVaultEntries(userId, options) :
          resp' = Status(200, [entries |-> entries])
    /\ UNCHANGED <<orgVars, authVars, vaultEntries, sharedLinks, auditLogs, now, ids, procs, hist>>

\* GET /api/passwords/:id
GetPassword(userId, entryId) ==
    LET got == getVaultEntry(userId, entryId)
    IN /\ req' = [op |-> "get", userId |-> userId, id |-> entryId]
       /\ vaultEntries' = got.table
       /\ CASE got.kind = "null" ->
                 /\ resp' = NotFoundEntry
                 /\ UNCHANGED auditLogs
            [] got.kind = "throw" ->
                 /\ resp' = Status(500, [error |-> "Failed"])
                 /\ UNCHANGED auditLogs
            [] got.kind = "ok" ->
                 /\ auditLogs' = Logged(logAction(userId, "reveal", entryId,
                                                  got.entry.title, NoDetails))
                 /\ resp' = Status(200, [entry |-> got.entry])
       /\ UNCHANGED <<orgVars, authVars, sharedLinks, now, ids, procs, hist>>

\* PUT /api/passwords/:id
PutPassword(userId, entryId, body, iv) ==
    LET put == updateVaultEntry(userId, entryId, body, iv)
    IN /\ req' = [op |-> "update", userId |-> userId, id |-> entryId, body |-> body]
       /\ IF ~updatePasswordSchema(body)
          THEN /\ resp' = ValidationFailed
               /\ UNCHANGED <<vaultEntries, auditLogs>>
          ELSE /\ vaultEntries' = put.table
               /\ CASE put.kind = "null" ->
                         /\ resp' = NotFoundEntry
                         /\ UNCHANGED auditLogs
                    [] put.kind = "throw" ->
                         /\ resp' = Status(500, [error |-> "Failed"])
                         /\ UNCHANGED auditLogs
                    [] put.kind = "ok" ->
                         /\ auditLogs' = Logged(logAction(userId, "update", entryId,
                                                          put.entry.title, NoDetails))
                         /\ resp' = Status(200, [message |-> "Password updated successfully",
                                                 entry |-> put.entry])
       /\ UNCHANGED <<orgVars, authVars, sharedLinks, now, ids, procs, hist>>

\* ON DELETE CASCADE of SharedLink.entryId
LinksWithout(gone) ==
    [l \in {l \in DOMAIN sharedLinks : sharedLinks[l].entryId \notin gone} |-> sharedLinks[l]]

\* ON DELETE CASCADE of VaultEntryTag.entryId
EntryTagsWithout(gone) == {t \in vaultEntryTags : t.entryId \notin gone}

\* DELETE /api/passwords/:id
DeletePassword(userId, entryId) ==
    LET got == getVaultEntry(userId, entryId)
        gone == deleteVaultEntry(got.table, userId, entryId)
    IN /\ req' = [op |-> "delete", userId |-> userId, id |-> entryId]
       /\ CASE got.kind = "throw" ->
                 /\ resp' = Status(500, [error |-> "Failed"])
                 /\ UNCHANGED <<vaultEntries, sharedLinks, auditLogs>>
            [] got.kind # "throw" /\ gone = {} ->
                 /\ resp' = NotFoundEntry
                 /\ vaultEntries' = got.table
                 /\ UNCHANGED <<sharedLinks, auditLogs>>
            [] got.kind # "throw" /\ gone # {} ->
                 /\ vaultEntries' = Without(got.table, gone)
                 /\ sharedLinks' = LinksWithout(gone)
                 /\ auditLogs' = Logged(logAction(userId, "delete", entryId,
                                                  IF got.kind = "ok" THEN got.entry.title
                                                  ELSE Undef, NoDetails))
                 /\ resp' = Status(200, [message |-> "Password deleted successfully"])
       /\ vaultEntryTags' = EntryTagsWithout(IF got.kind = "throw" THEN {} ELSE gone)
       /\ UNCHANGED <<collections, tags, authVars, now, ids, procs, hist>>

\* GET /api/passwords/export
GetExport(userId) ==
    /\ req' = [op |-> "export", userId |-> userId]
    /\ IF getFullVault(userId) = {}
       THEN /\ resp' = Status(500, [error |-> "Export failed"])
            /\ UNCHANGED auditLogs
       ELSE /\ \E entries \in getFullVault(userId) :
                  /\ auditLogs' = Logged(logAction(userId, "export", 0, Undef,
                                                   [count |-> Len(entries)]))
                  /\ resp' = Status(200, [entries |-> entries])
    /\ UNCHANGED <<orgVars, authVars, vaultEntries, sharedLinks, now, ids, procs, hist>>

\* GET /api/passwords/health
GetHealth(userId) ==
    LET got == getPasswordHealth(userId)
    IN /\ req' = [op |-> "health", userId |-> userId]
       /\ resp' = IF got.ok THEN Status(200, [health |-> got.health])
                  ELSE Status(500, [error |-> "Failed to analyze password health"])
       /\ UNCHANGED <<orgVars, authVars, vaultEntries, sharedLinks, auditLogs, now, ids, procs, hist>>

\* GET /api/audit
GetAudit(userId) ==
    /\ req' = [op |-> "audit", userId |-> userId]
    /\ \E result \in getAuditLogs(userId) : resp' = Status(200, result)
    /\ UNCHANGED <<orgVars, authVars, vaultEntries, sharedLinks, auditLogs, now, ids, procs, hist>>

\* time passes between two requests
Tick ==
    /\ now < MaxTime
    /\ now' = now + 1
    /\ req' = NoReq
    /\ resp' = NoResp
    /\ UNCHANGED <<orgVars, authVars, vaultEntries, sharedLinks, auditLogs, ids, procs, hist>>

-----------------------------------------------------------------------------
(* utils/tokens.ts *)

\* lifetimes in ticks of the clock: JWT_ACCESS_EXPIRES_IN (15m) and
\* JWT_REFRESH_EXPIRES_IN (30d)
AccessLifetime == 1
RefreshLifetime == 2

JwtSecret == <<"key", "jwt">>

generateAccessToken(userId, email) ==
    [sub |-> userId, email |-> email, type |-> "access",
     exp |-> now + AccessLifetime, signedWith |-> JwtSecret]

generateRefreshToken(n) ==
    [token |-> generateSecureToken(n),
     tokenHash |-> hashToken(generateSecureToken(n)),
     expiresAt |-> now + RefreshLifetime]

-----------------------------------------------------------------------------
(* services/authService.ts *)

NoEmail == <<>>
NoCookie == <<>>
EmailA == <<"a", "@", "x">>
EmailB == <<"b", "@", "x">>
BadEmail == <<"a", "x">>
PwPassw0rd == <<"P", "a", "s", "s", "w", "0", "r", "d", "!">>

\* bcrypt.hash and bcrypt.compare
bcryptHash(password) == <<"bcrypt", password>>
bcryptCompare(password, hash) == hash = bcryptHash(password)

\* prisma.user.findUnique({ where: { email } }): the ids found
findUserByEmail(email) == {id \in DOMAIN users : users[id].email = email}

formatUserResponse(id, user) ==
    [id |-> id, email |-> user.email, name |-> user.name,
     hasVaultKey |-> user.wrappedKey # NoWrappedKey, createdAt |-> user.createdAt]

\* createTokensForUser: the tokens, and the RefreshToken row it inserts
createTokensForUser(id, user) ==
    LET refresh == generateRefreshToken(ids.token + 1)
    IN [accessToken |-> generateAccessToken(id, user.email),
        refreshToken |-> refresh.token,
        row |-> [tokenHash |-> refresh.tokenHash, userId |-> id,
                 revoked |-> FALSE, expiresAt |-> refresh.expiresAt]]

\* the User row registerUser inserts
registerUserRow(email, password, name, iv) ==
    [email |-> email, passwordHash |-> bcryptHash(password), name |-> name,
     wrappedKey |-> wrapKey(generateUserKey(ids.user + 1), MasterKey, iv),
     createdAt |-> now]

InvalidLogin == "Invalid email or password"

\* loginUser with a message of its own for an unknown email
loginUserTellsUnknown(email, password) ==
    LET found == findUserByEmail(email)
        id == CHOOSE id \in found : TRUE
    IN IF found = {} THEN [ok |-> FALSE, error |-> "User not found"]
       ELSE IF users[id].passwordHash = NoHash THEN [ok |-> FALSE, error |-> InvalidLogin]
       ELSE IF ~bcryptCompare(password, users[id].passwordHash)
       THEN [ok |-> FALSE, error |-> InvalidLogin]
       ELSE [ok |-> TRUE, id |-> id]

\* loginUser up to createTokensForUser: the account signed in, or the error thrown
loginUser(email, password) ==
    LET found == findUserByEmail(email)
        id == CHOOSE id \in found : TRUE
    IN IF found = {} THEN [ok |-> FALSE, error |-> InvalidLogin]
       ELSE IF users[id].passwordHash = NoHash THEN [ok |-> FALSE, error |-> InvalidLogin]
       ELSE IF ~bcryptCompare(password, users[id].passwordHash)
       THEN [ok |-> FALSE, error |-> InvalidLogin]
       ELSE [ok |-> TRUE, id |-> id]

\* refreshAccessToken with the revoked flag not consulted
refreshAccessTokenIgnoresRevoked(refreshTokenValue) ==
    {r \in refreshTokens :
        /\ r.tokenHash = hashToken(refreshTokenValue)
        /\ r.expiresAt > now}

\* refreshAccessToken: the RefreshToken rows its findFirst may return
refreshAccessToken(refreshTokenValue) ==
    {r \in refreshTokens :
        /\ r.tokenHash = hashToken(refreshTokenValue)
        /\ r.revoked = FALSE
        /\ r.expiresAt > now}

\* logout that looks the raw token up, not its hash
logoutByRawToken(refreshTokenValue) ==
    {IF r.tokenHash = refreshTokenValue THEN [r EXCEPT !.revoked = TRUE] ELSE r :
        r \in refreshTokens}

\* logout: the RefreshToken table after updateMany({ where: { tokenHash } })
logout(refreshTokenValue) ==
    {IF r.tokenHash = hashToken(refreshTokenValue) THEN [r EXCEPT !.revoked = TRUE] ELSE r :
        r \in refreshTokens}

\* revokeAllUserTokens: the table after updateMany({ where: { userId } })
revokeAllUserTokens(userId) ==
    {IF r.userId = userId THEN [r EXCEPT !.revoked = TRUE] ELSE r : r \in refreshTokens}

-----------------------------------------------------------------------------
(* routes/auth.ts *)

vaultVars == <<vaultEntries, sharedLinks, auditLogs>>

\* z.string().email(): text, an @, text
IsEmail(email) ==
    \E i \in 2..(Len(email) - 1) : email[i] = "@"

registerSchema(body) ==
    /\ IsEmail(body.email)
    /\ Len(body.password) >= 8
    /\ Test(UpperChars, body.password)
    /\ Test(LowerChars, body.password)
    /\ Test(DigitChars, body.password)

loginSchema(body) ==
    /\ IsEmail(body.email)
    /\ Len(body.password) >= 1

\* a response that sets the refresh_token cookie
WithCookie(status, body, cookie) == [status |-> status, body |-> body, cookie |-> cookie]

\* what a sign-in adds: the refresh record and the tokens sent
SignedIn(id, user, status, message) ==
    LET tokens == createTokensForUser(id, user)
    IN /\ refreshTokens' = refreshTokens \cup {tokens.row}
       /\ resp' = WithCookie(status,
                             [message |-> message, user |-> formatUserResponse(id, user),
                              accessToken |-> tokens.accessToken],
                             tokens.refreshToken)

\* POST /api/auth/register
PostRegister(body, iv) ==
    /\ req' = [op |-> "register", body |-> body]
    /\ IF ~registerSchema(body)
       THEN /\ resp' = ValidationFailed
            /\ UNCHANGED <<users, refreshTokens, ids>>
       ELSE IF findUserByEmail(body.email) # {}
       THEN /\ resp' = Status(409, [error |-> "User with this email already exists"])
            /\ UNCHANGED <<users, refreshTokens, ids>>
       ELSE LET id == ids.user + 1
                user == registerUserRow(body.email, body.password, body.name, iv)
            IN /\ ids.user < MaxUsers
               /\ ids.token < MaxTokens
               /\ users' = (id :> user) @@ users
               /\ ids' = [ids EXCEPT !.user = id, !.token = @ + 1]
               /\ SignedIn(id, user, 201, "Registration successful")
    /\ UNCHANGED <<orgVars, oauthProviders, vaultVars, now, procs, hist>>

\* POST /api/auth/login
PostLogin(body) ==
    LET login == loginUser(body.email, body.password)
    IN /\ req' = [op |-> "login", body |-> body]
       /\ IF ~loginSchema(body)
          THEN /\ resp' = ValidationFailed
               /\ UNCHANGED <<refreshTokens, ids>>
          ELSE IF ~login.ok
          THEN /\ resp' = Status(401, [error |-> login.error])
               /\ UNCHANGED <<refreshTokens, ids>>
          ELSE /\ ids.token < MaxTokens
               /\ ids' = [ids EXCEPT !.token = @ + 1]
               /\ SignedIn(login.id, users[login.id], 200, "Login successful")
       /\ UNCHANGED <<orgVars, users, oauthProviders, vaultVars, now, procs, hist>>

\* POST /api/auth/refresh
PostRefresh(cookie) ==
    /\ req' = [op |-> "refresh", cookie |-> cookie]
    /\ IF cookie = NoCookie
       THEN resp' = Status(401, [error |-> "Refresh token not found"])
       ELSE IF refreshAccessToken(cookie) = {}
       THEN resp' = Status(401, [error |-> "Invalid or expired refresh token"])
       ELSE \E r \in refreshAccessToken(cookie) :
               resp' = Status(200,
                   [accessToken |-> generateAccessToken(r.userId, users[r.userId].email),
                    user |-> formatUserResponse(r.userId, users[r.userId])])
    /\ UNCHANGED <<orgVars, authVars, vaultVars, now, ids, procs, hist>>

\* POST /api/auth/logout
PostLogout(cookie) ==
    /\ req' = [op |-> "logout", cookie |-> cookie]
    /\ refreshTokens' = IF cookie = NoCookie THEN refreshTokens ELSE logout(cookie)
    /\ hist' = IF cookie = NoCookie THEN hist
               ELSE [hist EXCEPT !.loggedOut = @ \cup {cookie}]
    /\ resp' = WithCookie(200, [message |-> "Logged out successfully"], NoCookie)
    /\ UNCHANGED <<orgVars, users, oauthProviders, vaultVars, now, ids, procs>>

\* findOrCreateOAuthUser and the callback route, in one step: the rows of the
\* provider pair, the account found or made, the link made, the sign-in
OAuthCallback(provider, providerId, email, name, iv) ==
    LET linked == {l \in oauthProviders : l.provider = provider /\ l.providerId = providerId}
        existing == IF email = NoEmail THEN {} ELSE findUserByEmail(email)
        wrapped == wrapKey(generateUserKey(ids.user + 1), MasterKey, iv)
        id == IF linked # {} THEN (CHOOSE l \in linked : TRUE).userId
              ELSE IF existing # {} THEN CHOOSE u \in existing : TRUE
              ELSE ids.user + 1
        user == IF id \in DOMAIN users
                THEN IF linked = {} /\ users[id].wrappedKey = NoWrappedKey
                     THEN [users[id] EXCEPT !.wrappedKey = wrapped]
                     ELSE users[id]
                ELSE [email |-> email, passwordHash |-> NoHash, name |-> name,
                      wrappedKey |-> wrapped, createdAt |-> now]
    IN /\ req' = [op |-> "oauth", provider |-> provider, providerId |-> providerId,
                  email |-> email]
       /\ ids.token < MaxTokens
       /\ id \notin DOMAIN users => ids.user < MaxUsers
       /\ users' = (id :> user) @@ users
       /\ oauthProviders' = oauthProviders \cup
             (IF linked # {} THEN {}
              ELSE {[provider |-> provider, providerId |-> providerId, userId |-> id]})
       /\ ids' = [ids EXCEPT !.token = @ + 1,
                             !.user = IF id \in DOMAIN users THEN @ ELSE id]
       /\ LET tokens == createTokensForUser(id, user)
          IN /\ refreshTokens' = refreshTokens \cup {tokens.row}
             /\ resp' = WithCookie(302, [location |-> "/oauth-success"], tokens.refreshToken)
       /\ UNCHANGED <<orgVars, vaultVars, now, procs, hist>>

-----------------------------------------------------------------------------
(* the sharing service (middleware/auth.ts) and its routes (routes/passwords.ts) *)

\* the default of expiresInHours, 24 hours, in ticks of the clock
ShareLifetime == 1

\* a || b for numbers: 0 and undefined are falsy
OrElseNum(value, default) == IF value \in {UndefNum, 0} THEN default ELSE value
\* a ?? b for an optional flag
OrDefault(value, default) == IF value = Undef THEN default ELSE value = "true"

\* createShareLink: the throw, or the SharedLink row it inserts under the token
\* generateSecureToken gave it
createShareLink(userId, input, token) ==
    IF findEntry(userId, input.entryId) = {}
    THEN [ok |-> FALSE, error |-> "Entry not found"]
    ELSE [ok |-> TRUE,
          token |-> token,
          row |-> [userId |-> userId,
                   entryId |-> input.entryId,
                   tokenHash |-> hashToken(token),
                   maxViews |-> OrElseNum(input.maxViews, 1),
                   viewCount |-> 0,
                   expiresAt |-> now + OrElseNum(input.expiresInHours, ShareLifetime),
                   accessedAt |-> NullTime,
                   accessorIp |-> Null,
                   includePassword |-> OrDefault(input.includePassword, TRUE),
                   includeNotes |-> OrDefault(input.includeNotes, FALSE),
                   createdAt |-> now]]

\* the ShareLinkResponse of a row; token is the raw token, or the empty text
shareLinkResponse(id, link, token) ==
    [id |-> id, token |-> token, entryId |-> link.entryId,
     entryTitle |-> vaultEntries[link.entryId].title, maxViews |-> link.maxViews,
     viewCount |-> link.viewCount, expiresAt |-> link.expiresAt,
     includePassword |-> link.includePassword, includeNotes |-> link.includeNotes,
     createdAt |-> link.createdAt]

\* a view that always carries the password
sharedEntryViewWithPassword(link, entry) ==
    IF link.includeNotes
    THEN [title |-> entry.title, username |-> entry.username, site |-> entry.site,
          password |-> entry.password, notes |-> OrElse(entry.notes, Undef)]
    ELSE [title |-> entry.title, username |-> entry.username, site |-> entry.site,
          password |-> entry.password]

\* the SharedEntryView accessSharedEntry builds from the link's settings
sharedEntryView(link, entry) ==
    CASE link.includePassword /\ link.includeNotes ->
            [title |-> entry.title, username |-> entry.username, site |-> entry.site,
             password |-> entry.password, notes |-> OrElse(entry.notes, Undef)]
      [] link.includePassword /\ ~link.includeNotes ->
            [title |-> entry.title, username |-> entry.username, site |-> entry.site,
             password |-> entry.password]
      [] ~link.includePassword /\ link.includeNotes ->
            [title |-> entry.title, username |-> entry.username, site |-> entry.site,
             notes |-> OrElse(entry.notes, Undef)]
      [] OTHER ->
            [title |-> entry.title, username |-> entry.username, site |-> entry.site]

\* findFirst({ where: { tokenHash, expiresAt: { gt: new Date() } } }): the ids found
findShareLink(token) ==
    {l \in DOMAIN sharedLinks :
        sharedLinks[l].tokenHash = hashToken(token) /\ sharedLinks[l].expiresAt > now}

\* sharedLink.update({ data: { viewCount: { increment: 1 }, accessedAt, accessorIp } })
viewCounted(links, l, ip) ==
    [links EXCEPT ![l].viewCount = @ + 1, ![l].accessedAt = now, ![l].accessorIp = ip]

\* accessSharedEntry, its awaits in one step: null, a throw or the view, with the
\* tables after it
accessSharedEntry(token, ip) ==
    LET found == findShareLink(token)
        l == CHOOSE l \in found : TRUE
        link == sharedLinks[l]
        got == getVaultEntry(link.userId, link.entryId)
    IN IF found = {}
       THEN [kind |-> "null", links |-> sharedLinks, table |-> vaultEntries]
       ELSE IF link.viewCount >= link.maxViews
       THEN [kind |-> "null", links |-> sharedLinks, table |-> vaultEntries]
       ELSE IF got.kind # "ok"
       THEN [kind |-> got.kind, links |-> sharedLinks, table |-> got.table]
       ELSE [kind |-> "ok", links |-> viewCounted(sharedLinks, l, ip), table |-> got.table,
             view |-> sharedEntryView(link, got.entry)]

\* orderBy: { createdAt: 'desc' }
linkOrderBefore(a, b) == sharedLinks[a].createdAt > sharedLinks[b].createdAt

\* listShareLinks: the results it may return
listShareLinks(userId) ==
    LET mine == {l \in DOMAIN sharedLinks : sharedLinks[l].userId = userId}
    IN {[i \in DOMAIN order |-> shareLinkResponse(order[i], sharedLinks[order[i]], <<>>)] :
           order \in Orderings(mine, {o \in mine \X mine : linkOrderBefore(o[1], o[2])})}

\* a revocation that does not ask whose link it is
revokeShareLinkAnyOwner(userId, linkId) ==
    {l \in DOMAIN sharedLinks : l = linkId}

\* revokeShareLink: the ids deleteMany({ where: { id, userId } }) deletes
revokeShareLink(userId, linkId) ==
    {l \in DOMAIN sharedLinks : l = linkId /\ sharedLinks[l].userId = userId}

\* a share request body with no field set
NoShareBody ==
    [entryId |-> 0, maxViews |-> UndefNum, expiresInHours |-> UndefNum,
     includePassword |-> Undef, includeNotes |-> Undef]

\* what is remembered of a share: the raw token handed out, the settings asked for,
\* and the accesses made with the token while the link existed and had not expired
Remembered(token, body) == [token |-> token, asked |-> body, accesses |-> 0, views |-> 0]

\* the accesses remembered of the first n shares
RECURSIVE Accesses(_)
Accesses(n) == IF n = 0 THEN 0 ELSE hist.shares[n].accesses + Accesses(n - 1)

\* POST /api/share; entryId 0 stands for a body without entryId
PostShare(userId, body) ==
    LET made == createShareLink(userId, body, generateSecureToken(ids.token + ids.link + 1))
        id == ids.link + 1
    IN /\ req' = [op |-> "share", userId |-> userId, body |-> body]
       /\ IF body.entryId = 0
          THEN /\ resp' = Status(400, [error |-> "entryId is required"])
               /\ UNCHANGED <<sharedLinks, auditLogs, ids, hist>>
          ELSE IF ~made.ok
          THEN /\ resp' = Status(500, [error |-> made.error])
               /\ UNCHANGED <<sharedLinks, auditLogs, ids, hist>>
          ELSE /\ ids.link < MaxLinks
               /\ sharedLinks' = (id :> made.row) @@ sharedLinks
               /\ ids' = [ids EXCEPT !.link = id]
               /\ hist' = [hist EXCEPT !.shares = Append(@, Remembered(made.token, body))]
               /\ auditLogs' = Logged(logAction(userId, "share", body.entryId,
                                     vaultEntries[body.entryId].title,
                                     [maxViews |-> made.row.maxViews,
                                      expiresAt |-> made.row.expiresAt]))
               /\ resp' = Status(201,
                     [link |-> shareLinkResponse(id, made.row, made.token),
                      shareUrl |-> <<"/shared.html?token=", made.token>>])
       /\ UNCHANGED <<orgVars, authVars, vaultEntries, now, procs>>

\* GET /api/share/:token
GetShare(token, ip) ==
    LET got == accessSharedEntry(token, ip)
        live == findShareLink(token)
    IN /\ req' = [op |-> "access", token |-> token]
       /\ live # {} => Accesses(Len(hist.shares)) < MaxAccesses
       /\ sharedLinks' = got.links
       /\ vaultEntries' = got.table
       /\ hist' = [hist EXCEPT !.shares =
                     [l \in DOMAIN @ |->
                        IF l \in live
                        THEN [@[l] EXCEPT !.accesses = @ + 1,
                                          !.views = IF got.kind = "ok" THEN @ + 1 ELSE @]
                        ELSE @[l]]]
       /\ resp' = CASE got.kind = "ok" -> Status(200, [entry |-> got.view])
                    [] got.kind = "null" ->
                          Status(404, [error |-> "Share link not found or expired"])
                    [] OTHER -> Status(500, [error |-> "Failed to access shared entry"])
       /\ UNCHANGED <<orgVars, authVars, auditLogs, now, ids, procs>>

\* GET /api/share
GetShares(userId) ==
    /\ req' = [op |-> "shares", userId |-> userId]
    /\ \E links \in listShareLinks(userId) : resp' = Status(200, [links |-> links])
    /\ UNCHANGED <<orgVars, authVars, vaultVars, now, ids, procs, hist>>

\* DELETE /api/share/:id
DeleteShare(userId, linkId) ==
    LET gone == revokeShareLink(userId, linkId)
    IN /\ req' = [op |-> "revoke", userId |-> userId, id |-> linkId]
       /\ sharedLinks' = [l \in DOMAIN sharedLinks \ gone |-> sharedLinks[l]]
       /\ resp' = IF gone = {} THEN Status(404, [error |-> "Share link not found"])
                  ELSE Status(200, [message |-> "Share link revoked"])
       /\ UNCHANGED <<orgVars, authVars, vaultEntries, auditLogs, now, ids, procs, hist>>

-----------------------------------------------------------------------------
(* The specifications *)

NoIds == [user |-> 0, token |-> 0, entry |-> 0, link |-> 0, tag |-> 0, collection |-> 0]
NoHist == [loggedOut |-> {}, shares |-> <<>>, detached |-> {}]

\* the state after construction: an empty store
InitAuth ==
    /\ users = <<>>
    /\ oauthProviders = {}
    /\ refreshTokens = {}
    /\ vaultEntries = <<>>
    /\ sharedLinks = <<>>
    /\ auditLogs = <<>>
    /\ now = 0
    /\ ids = NoIds
    /\ req = NoReq
    /\ resp = NoResp
    /\ procs = <<>>
    /\ hist = NoHist
    /\ NoOrganization

\* what clients send to the authentication routes
RegisterBodies ==
    {[email |-> EmailA, password |-> PwPassw0rd, name |-> "N"],
     [email |-> EmailA, password |-> PwAaa, name |-> "N"],
     [email |-> BadEmail, password |-> PwPassw0rd, name |-> "N"]}
LoginBodies ==
    {[email |-> EmailA, password |-> PwPassw0rd],
     [email |-> EmailA, password |-> PwHunter],
     [email |-> EmailB, password |-> PwPassw0rd],
     [email |-> BadEmail, password |-> PwPassw0rd]}
\* the cookies a client may hold: none, a token it was given, a token never issued
Cookies == {NoCookie} \cup {generateSecureToken(n) : n \in 0..ids.token}

\* the authentication routes, one request at a time
NextAuth ==
    \/ \E body \in RegisterBodies, iv \in {"iv1"} : PostRegister(body, iv)
    \/ \E body \in LoginBodies : PostLogin(body)
    \/ \E cookie \in Cookies : PostRefresh(cookie)
    \/ \E cookie \in Cookies : PostLogout(cookie)
    \/ \E email \in {NoEmail, EmailB} : OAuthCallback("google", "g1", email, "N", "iv1")
    \/ Tick

SpecAuth == InitAuth /\ [][NextAuth]_vars

\* two accounts registered at time 0, and the entry the second one then created
FirstBody ==
    [NoBody EXCEPT !.title = "Bank", !.username = "bob", !.password = PwAaa,
                   !.notes = "pin", !.strength = 5]

InitVault ==
    /\ users = [id \in 1..2 |->
                  [email |-> IF id = 1 THEN EmailA ELSE EmailB,
                   passwordHash |-> bcryptHash(PwPassw0rd), name |-> "N",
                   wrappedKey |-> wrapKey(generateUserKey(id), MasterKey, "iv1"),
                   createdAt |-> 0]]
    /\ oauthProviders = {}
    /\ refreshTokens = {[tokenHash |-> hashToken(generateSecureToken(id)), userId |-> id,
                         revoked |-> FALSE, expiresAt |-> RefreshLifetime] : id \in 1..2}
    /\ now = 0
    /\ vaultEntries = Inserted(<<>>, 0, <<createVaultEntry(2, FirstBody, "iv1").row>>)
    /\ sharedLinks = <<>>
    /\ auditLogs = <<logAction(2, "create", 1, FirstBody.title, NoDetails)>>
    /\ ids = [user |-> 2, token |-> 2, entry |-> 1, link |-> 0, tag |-> 0, collection |-> 0]
    /\ req = NoReq
    /\ resp = NoResp
    /\ procs = <<>>
    /\ hist = NoHist
    /\ NoOrganization

\* what clients send to the vault routes: the strength field is one the client
\* made up
CreateBodies ==
    {[NoBody EXCEPT !.title = "Gmail", !.password = PwStrong, !.strength = 0],
     [NoBody EXCEPT !.title = "Gmail", !.password = PwEmpty]}
DirectSaveBodies ==
    {[NoBody EXCEPT !.title = "Gmail", !.password = PwReuse, !.strength = 5],
     [NoBody EXCEPT !.title = "Gmail"]}
UpdateBodies ==
    {[NoBody EXCEPT !.password = PwHunter, !.strength = 0],
     [NoBody EXCEPT !.title = "Mail", !.strength = 5],
     [NoBody EXCEPT !.password = PwEmpty]}
ImportEntries ==
    <<[NoBody EXCEPT !.title = "Gmail (Imported)", !.password = PwDigits, !.strength = 0],
      [NoBody EXCEPT !.title = "No password"]>>
ImportBodies ==
    {[isArray |-> FALSE, entries |-> <<>>],
     [isArray |-> TRUE, entries |-> <<>>],
     [isArray |-> TRUE, entries |-> ImportEntries]}
NoOptions ==
    [collectionId |-> Undef, isFavorite |-> Undef, isPinned |-> Undef,
     strengthMin |-> UndefNum, strengthMax |-> UndefNum]
ListOptions ==
    {NoOptions, [NoOptions EXCEPT !.isFavorite = "true"],
     [NoOptions EXCEPT !.strengthMin = 4]}
\* the ids a client may name: those handed out, and one that was not
EntryIds == 1..(ids.entry + 1)

\* the audit log is kept within MaxAudit rows
AuditWithin(limit) == Len(auditLogs') <= limit

NextVault ==
    \/ \E userId \in DOMAIN users, body \in CreateBodies :
          PostPassword(userId, body, "iv1") /\ AuditWithin(MaxAudit)
    \/ \E userId \in DOMAIN users, body \in DirectSaveBodies :
          PostDirectSave(userId, body, "iv1") /\ AuditWithin(MaxAudit)
    \/ \E userId \in DOMAIN users, body \in ImportBodies :
          /\ PostImport(userId, body, [i \in 1..Len(body.entries) |-> "iv1"])
          /\ AuditWithin(MaxAudit)
    \/ \E userId \in DOMAIN users, options \in ListOptions : GetPasswords(userId, options)
    \/ \E userId \in DOMAIN users, id \in EntryIds :
          GetPassword(userId, id) /\ AuditWithin(MaxAudit)
    \/ \E userId \in DOMAIN users, id \in EntryIds, body \in UpdateBodies :
          PutPassword(userId, id, body, "iv2") /\ AuditWithin(MaxAudit)
    \/ \E userId \in DOMAIN users, id \in EntryIds :
          DeletePassword(userId, id) /\ AuditWithin(MaxAudit)
    \/ \E userId \in DOMAIN users : GetExport(userId) /\ AuditWithin(MaxAudit)
    \/ \E userId \in DOMAIN users : GetHealth(userId)
    \/ \E userId \in DOMAIN users : GetAudit(userId)
    \/ Tick /\ now < MaxVaultTime

SpecVault == InitVault /\ [][NextVault]_vars

-----------------------------------------------------------------------------
(* Refresh, logout and login (SpecAuth) *)

\* the refresh records a raw token matches: same fingerprint, not revoked, not expired
ActiveRecords(token) ==
    {r \in refreshTokens :
        r.tokenHash = <<"sha256", token>> /\ ~r.revoked /\ r.expiresAt > now}

\* C6: a refresh issues a new bearer credential (200) iff a refresh record has the
\* fingerprint of the token, is not revoked and expires later than now; otherwise it
\* answers 401; and no refresh, successful or failed, creates, revokes or modifies
\* a refresh record
C6_RefreshIffActiveRecord ==
    [][req'.op = "refresh" =>
         /\ (resp'.status = 200) <=> (ActiveRecords(req'.cookie) # {})
         /\ resp'.status \in {200, 401}
         /\ resp'.status = 200 =>
               \E r \in ActiveRecords(req'.cookie) :
                  /\ resp'.body.accessToken.sub = r.userId
                  /\ resp'.body.accessToken.exp > now
         /\ refreshTokens' = refreshTokens]_vars

\* a refresh succeeded with a token issued a tick earlier that expires a tick later
C6_Witness ==
    /\ req.op = "refresh"
    /\ resp.status = 200
    /\ now > 0
    /\ \E r \in ActiveRecords(req.cookie) : r.expiresAt = now + 1

\* C7: once a token has been logged out, every later refresh with it answers 401,
\* whatever happened in between; a logout with a token already logged out, or with
\* one that matches no record, answers 200 and changes no refresh record
C7_LogoutIsFinal ==
    /\ [](\A token \in hist.loggedOut : ActiveRecords(token) = {})
    /\ [][/\ req'.op = "refresh" /\ req'.cookie \in hist.loggedOut =>
               resp'.status = 401
          /\ req'.op = "logout" =>
               /\ resp'.status = 200
               /\ req'.cookie # NoCookie => req'.cookie \in hist'.loggedOut
               /\ \/ req'.cookie \in hist.loggedOut
                  \/ \A r \in refreshTokens : r.tokenHash # <<"sha256", req'.cookie>>
                  => refreshTokens' = refreshTokens]_vars

\* a refresh was refused for a token that was logged out and whose record has not
\* expired, after some other sign-in
C7_Witness ==
    /\ req.op = "refresh"
    /\ resp.status = 401
    /\ req.cookie \in hist.loggedOut
    /\ \E r \in refreshTokens :
          r.tokenHash = <<"sha256", req.cookie>> /\ r.revoked /\ r.expiresAt > now
    /\ \E r \in refreshTokens : ~r.revoked

\* why a login must fail: no account has the email, the account has no
\* credential hash, or the password is not the one of the hash
NoAccount(body) == \A id \in DOMAIN users : users[id].email # body.email
OAuthOnly(body) ==
    \E id \in DOMAIN users : users[id].email = body.email /\ users[id].passwordHash = <<>>
WrongPassword(body) ==
    \E id \in DOMAIN users :
       /\ users[id].email = body.email
       /\ users[id].passwordHash # <<>>
       /\ users[id].passwordHash # <<"bcrypt", body.password>>

\* C8: a login for an email without account, for an account without credential
\* hash, or with a wrong password, gets one and the same response, 401 with the
\* same error value, and creates no refresh record
C8_LoginFailuresAlike ==
    [][/\ req'.op = "login"
       /\ IsEmail(req'.body.email) /\ Len(req'.body.password) >= 1
       /\ NoAccount(req'.body) \/ OAuthOnly(req'.body) \/ WrongPassword(req'.body)
       => /\ resp' = [status |-> 401, body |-> [error |-> "Invalid email or password"]]
          /\ refreshTokens' = refreshTokens]_vars

\* a login was refused for an account that has no credential hash, while another
\* account has one
C8_Witness ==
    /\ req.op = "login"
    /\ resp.status = 401
    /\ OAuthOnly(req.body)
    /\ \E id \in DOMAIN users : users[id].passwordHash # <<>>

-----------------------------------------------------------------------------
(* POST /api/auth/register, await by await (SpecRegConc) *)

\* a request handler that is not running
Idle == [pc |-> "idle", body |-> [email |-> NoEmail], id |-> 0, resp |-> NoResp]

\* the message of the error prisma.user.create throws on the unique index User_email_key
UniqueConstraintFailed == "Unique constraint failed on the fields: (email)"
\* message.includes('already exists')
IncludesAlreadyExists(message) == message = "User with this email already exists"

\* the catch of the route: 409 when the message says so, 500 otherwise
RegisterFailed(message) ==
    Status(IF IncludesAlreadyExists(message) THEN 409 ELSE 500, [error |-> message])

Running == {p \in DOMAIN procs : procs[p].pc \notin {"idle", "done"}}

\* a request arrives: validate(registerSchema)
RegStart(p, body) ==
    /\ procs[p].pc \in {"idle", "done"}
    /\ ids.user + Cardinality(Running) < MaxUsers
    /\ ids.token + Cardinality(Running) < MaxTokens
    /\ procs' = [procs EXCEPT ![p] =
                   IF registerSchema(body)
                   THEN [pc |-> "find", body |-> body, id |-> 0, resp |-> NoResp]
                   ELSE [pc |-> "done", body |-> body, id |-> 0, resp |-> ValidationFailed]]
    /\ UNCHANGED <<orgVars, authVars, vaultVars, now, ids, req, resp, hist>>

\* await prisma.user.findUnique({ where: { email } })
RegFind(p) ==
    /\ procs[p].pc = "find"
    /\ procs' = [procs EXCEPT ![p] =
                   IF findUserByEmail(procs[p].body.email) # {}
                   THEN [@ EXCEPT !.pc = "done",
                                  !.resp = RegisterFailed("User with this email already exists")]
                   ELSE [@ EXCEPT !.pc = "create"]]
    /\ UNCHANGED <<orgVars, authVars, vaultVars, now, ids, req, resp, hist>>

\* await prisma.user.create: the unique index on email refuses a second row
RegCreate(p) ==
    LET body == procs[p].body
        id == ids.user + 1
    IN /\ procs[p].pc = "create"
       /\ IF findUserByEmail(body.email) # {}
          THEN /\ procs' = [procs EXCEPT ![p].pc = "done",
                                         ![p].resp = RegisterFailed(UniqueConstraintFailed)]
               /\ UNCHANGED <<users, ids>>
          ELSE /\ users' = (id :> registerUserRow(body.email, body.password, body.name, "iv1"))
                              @@ users
               /\ ids' = [ids EXCEPT !.user = id]
               /\ procs' = [procs EXCEPT ![p].pc = "tokens", ![p].id = id]
       /\ UNCHANGED <<orgVars, oauthProviders, refreshTokens, vaultVars, now, req, resp, hist>>

\* await createTokensForUser(user), then the 201
RegTokens(p) ==
    LET id == procs[p].id
        tokens == createTokensForUser(id, users[id])
    IN /\ procs[p].pc = "tokens"
       /\ refreshTokens' = refreshTokens \cup {tokens.row}
       /\ ids' = [ids EXCEPT !.token = @ + 1]
       /\ procs' = [procs EXCEPT
                      ![p].pc = "done",
                      ![p].resp = WithCookie(201,
                          [message |-> "Registration successful",
                           user |-> formatUserResponse(id, users[id]),
                           accessToken |-> tokens.accessToken],
                          tokens.refreshToken)]
       /\ UNCHANGED <<orgVars, users, oauthProviders, vaultVars, now, req, resp, hist>>

InitRegConc ==
    /\ users = <<>>
    /\ oauthProviders = {}
    /\ refreshTokens = {}
    /\ vaultEntries = <<>>
    /\ sharedLinks = <<>>
    /\ auditLogs = <<>>
    /\ now = 0
    /\ ids = NoIds
    /\ req = NoReq
    /\ resp = NoResp
    /\ procs = [p \in 1..MaxProcs |-> Idle]
    /\ hist = NoHist
    /\ NoOrganization

NextRegConc ==
    \/ \E p \in DOMAIN procs, body \in RegisterBodies \cup
             {[email |-> EmailB, password |-> PwPassw0rd, name |-> "N"]} : RegStart(p, body)
    \/ \E p \in DOMAIN procs : RegFind(p)
    \/ \E p \in DOMAIN procs : RegCreate(p)
    \/ \E p \in DOMAIN procs : RegTokens(p)

SpecRegConc == InitRegConc /\ [][NextRegConc]_vars

\* C9: a register call for an email that an account holds answers 409, also when
\* the email was taken between its existence check and its creation; it creates
\* no account and no refresh record, and no two accounts have one email
C9_DuplicateEmailIsConflict ==
    /\ \A p \in DOMAIN procs :
          /\ procs[p].pc = "done"
          /\ IsEmail(procs[p].body.email)
          /\ procs[p].resp.status \notin {201, 400}
          => procs[p].resp.status = 409
    /\ \A a, b \in DOMAIN users : users[a].email = users[b].email => a = b
    /\ Cardinality(refreshTokens) <= Cardinality(DOMAIN users)

\* what does hold: no two accounts have one email, and a refused register call
\* leaves no account and no refresh record behind
C9_OneAccountPerEmail ==
    /\ \A a, b \in DOMAIN users : users[a].email = users[b].email => a = b
    /\ Cardinality(refreshTokens) <= Cardinality(DOMAIN users)
    /\ \A p \in DOMAIN procs :
          procs[p].pc = "done" /\ procs[p].resp.status # 201 => procs[p].id = 0

-----------------------------------------------------------------------------
(* Read isolation and the strength score (SpecVault) *)

OwnedBy(userId) == {id \in DOMAIN vaultEntries : vaultEntries[id].userId = userId}

\* C1: no response to a request of account B exposes an entry of another account:
\* get of such an entry answers 404 as for an id that does not exist, and leaves
\* the entry as it is (lastUsedAt included); list and export hold only entries of
\* B; health counts only entries of B; an entry in any response is one of B
C1_ReadIsolation ==
    [][/\ req'.op = "get" /\ req'.id \notin OwnedBy(req'.userId) =>
            /\ resp' = [status |-> 404, body |-> [error |-> "Password entry not found"]]
            /\ vaultEntries' = vaultEntries
            /\ auditLogs' = auditLogs
       /\ req'.op \in {"list", "export"} /\ resp'.status = 200 =>
            \A i \in DOMAIN resp'.body.entries :
               resp'.body.entries[i].id \in OwnedBy(req'.userId)
       /\ req'.op = "health" /\ resp'.status = 200 =>
            LET health == resp'.body.health
            IN /\ health.total = Cardinality(OwnedBy(req'.userId))
               /\ health.strong + health.medium + health.weak + health.noPassword
                     = health.total
               /\ health.reused <= health.total
               /\ health.old <= health.total
       /\ req'.op \in {"get", "create", "direct-save", "update"}
             /\ resp'.status \in {200, 201} =>
            vaultEntries'[resp'.body.entry.id].userId = req'.userId]_vars

\* account 1, which has an entry of its own, asked for the entry of account 2 and
\* got 404
C1_Witness ==
    /\ req.op = "get"
    /\ req.userId = 1
    /\ req.id \in OwnedBy(2)
    /\ resp.status = 404
    /\ OwnedBy(1) # {}

\* the plaintext inside a stored ciphertext
PlaintextOf(entry) == entry.passwordCiphertext[2][4]

\* the strength score of the claim: one point per condition, at most 4
strengthScore(text) ==
    LET points == {c \in 1..5 :
            \/ c = 1 /\ Len(text) >= 8
            \/ c = 2 /\ Len(text) >= 12
            \/ c = 3 /\ (\E i \in DOMAIN text : text[i] \in UpperChars)
                     /\ (\E i \in DOMAIN text : text[i] \in LowerChars)
            \/ c = 4 /\ (\E i \in DOMAIN text : text[i] \in DigitChars)
            \/ c = 5 /\ (\E i \in DOMAIN text :
                            text[i] \notin UpperChars \cup LowerChars \cup DigitChars)}
    IN IF Cardinality(points) > 4 THEN 4 ELSE Cardinality(points)

\* C10: every entry's stored strength is the strength score of the plaintext of its
\* stored secret, after any creates, direct saves, imports and updates; the
\* strength a client sends is not stored
C10_StrengthIsScoreOfSecret ==
    \A id \in DOMAIN vaultEntries :
       vaultEntries[id].strength = strengthScore(PlaintextOf(vaultEntries[id]))

\* an update changed the secret and the client sent a strength that is not the
\* score
C10_Witness ==
    /\ req.op = "update"
    /\ resp.status = 200
    /\ req.body.password = PwHunter
    /\ req.body.strength = 0
    /\ vaultEntries[req.id].strength = 4

-----------------------------------------------------------------------------
(* Sharing, one request at a time (SpecShare) *)

\* what clients send to the share routes
ShareBodies ==
    {NoShareBody,
     [NoShareBody EXCEPT !.entryId = 1],
     [NoShareBody EXCEPT !.entryId = 1, !.maxViews = 2, !.expiresInHours = 2,
                         !.includePassword = "false", !.includeNotes = "true"],
     [NoShareBody EXCEPT !.entryId = 1, !.maxViews = 0 - 1]}
\* the owner of entry 1 sends each of them, the other account the second
ShareRequests ==
    {<<2, body>> : body \in ShareBodies} \cup {<<1, [NoShareBody EXCEPT !.entryId = 1]>>}
\* the tokens a visitor may present: those handed out, and one that was not
ShareTokens == {generateSecureToken(ids.token + n) : n \in 1..(ids.link + 1)}
ShareUpdateBodies ==
    {[NoBody EXCEPT !.password = PwHunter],
     [NoBody EXCEPT !.notes = ""]}

NextShare ==
    \/ \E request \in ShareRequests :
          PostShare(request[1], request[2]) /\ AuditWithin(MaxShareAudit)
    \/ \E token \in ShareTokens : GetShare(token, "ip")
    \/ \E userId \in DOMAIN users : GetShares(userId)
    \/ \E userId \in DOMAIN users, l \in 1..ids.link : DeleteShare(userId, l)
    \/ \E body \in ShareUpdateBodies :
          PutPassword(2, 1, body, "iv2") /\ AuditWithin(MaxShareAudit)
    \/ Tick /\ now < ShareLifetime

SpecShare == InitVault /\ [][NextShare]_vars

\* the links a raw token matches that have not expired and have views left
Consumable(token) ==
    {l \in DOMAIN sharedLinks :
        /\ sharedLinks[l].tokenHash = <<"sha256", token>>
        /\ now < sharedLinks[l].expiresAt
        /\ sharedLinks[l].viewCount < sharedLinks[l].maxViews}

\* what an access does to the view counts: an accepted one adds 1 to the link's,
\* a rejected one changes none
CountsViews ==
    req'.op = "access" =>
       /\ (resp'.status = 200) <=> (Consumable(req'.token) # {})
       /\ resp'.status \in {200, 404}
       /\ \A l \in DOMAIN sharedLinks :
             /\ l \in DOMAIN sharedLinks'
             /\ sharedLinks'[l].viewCount =
                   IF l \in Consumable(req'.token)
                   THEN sharedLinks[l].viewCount + 1
                   ELSE sharedLinks[l].viewCount

\* C2: an access returns a view iff a link has the token's fingerprint, has not
\* expired and has views left; an accepted access adds exactly 1 to viewCount and a
\* rejected one leaves it; so after N accesses before expiry viewCount is
\* min(N, maxViews)
C2_SequentialConsumption ==
    /\ [](\A l \in DOMAIN sharedLinks :
             sharedLinks[l].viewCount
                = Min(hist.shares[l].accesses, sharedLinks[l].maxViews))
    /\ [][CountsViews]_vars

\* what does hold: the same, the count being min(N, maxViews) for the links whose
\* maxViews is at least 1
C2_ConsumptionOfLinksWithViews ==
    /\ [](\A l \in DOMAIN sharedLinks :
             sharedLinks[l].maxViews >= 1 =>
                sharedLinks[l].viewCount
                   = Min(hist.shares[l].accesses, sharedLinks[l].maxViews))
    /\ [][CountsViews]_vars

\* a link with maxViews 2 refused its third access
C2_RefusedWhenUsedUp ==
    /\ req.op = "access"
    /\ resp.status = 404
    /\ \E l \in DOMAIN sharedLinks :
          /\ sharedLinks[l].tokenHash = <<"sha256", req.token>>
          /\ sharedLinks[l].maxViews = 2
          /\ sharedLinks[l].viewCount = 2
          /\ hist.shares[l].accesses = 3

\* a link with a negative maxViews refused its first access
C2_NeverConsumable ==
    /\ req.op = "access"
    /\ resp.status = 404
    /\ \E l \in DOMAIN sharedLinks :
          /\ sharedLinks[l].tokenHash = <<"sha256", req.token>>
          /\ sharedLinks[l].maxViews < 1
          /\ now < sharedLinks[l].expiresAt
          /\ hist.shares[l].accesses = 1

\* the link a raw token belongs to
LinkOf(token) == {l \in DOMAIN sharedLinks : sharedLinks[l].tokenHash = <<"sha256", token>>}

\* C4: a view holds title, username and site of the entry as it is now; it holds
\* the secret only if the share was asked with includePassword true (the
\* default), and notes only if it was asked with includeNotes true, whatever the
\* entry holds and whatever updates it got since
C4_SelectiveDisclosure ==
    [][req'.op = "access" /\ resp'.status = 200 =>
         \E l \in LinkOf(req'.token) :
            LET view == resp'.body.entry
                asked == hist.shares[l].asked
                entry == vaultEntries[sharedLinks[l].entryId]
            IN /\ {"title", "username", "site"} \subseteq DOMAIN view
               /\ DOMAIN view \subseteq {"title", "username", "site", "password", "notes"}
               /\ view.title = entry.title
               /\ view.username = entry.username
               /\ view.site = entry.site
               /\ "password" \in DOMAIN view => asked.includePassword # "false"
               /\ "notes" \in DOMAIN view => asked.includeNotes = "true"]_vars

\* a share asked without the secret and with notes was viewed after the entry's
\* secret was changed
C4_Witness ==
    /\ req.op = "access"
    /\ resp.status = 200
    /\ DOMAIN resp.body.entry = {"title", "username", "site", "notes"}
    /\ \E l \in LinkOf(req.token) :
          /\ hist.shares[l].asked.includePassword = "false"
          /\ PlaintextOf(vaultEntries[sharedLinks[l].entryId]) = PwHunter

\* the raw tokens handed out so far
RawTokens == {hist.shares[l].token : l \in DOMAIN hist.shares}

\* C5: the raw token is in the response of the create call that made it and in
\* no other response; the stored row holds the token's fingerprint and not the
\* token, and no listed link carries a raw token
C5_RawTokenOnlyAtCreation ==
    /\ [](\A l \in DOMAIN sharedLinks :
             /\ sharedLinks[l].tokenHash = <<"sha256", hist.shares[l].token>>
             /\ sharedLinks[l].tokenHash \notin RawTokens
             /\ "token" \notin DOMAIN sharedLinks[l])
    /\ [](\A i \in DOMAIN auditLogs : "token" \notin DOMAIN auditLogs[i].details)
    /\ [][/\ req'.op = "share" /\ resp'.status = 201 =>
               /\ resp'.body.link.token = hist'.shares[resp'.body.link.id].token
               /\ resp'.body.link.token \notin RawTokens
          /\ req'.op = "shares" =>
               \A i \in DOMAIN resp'.body.links :
                  /\ resp'.body.links[i].token = <<>>
                  /\ resp'.body.links[i].token \notin RawTokens
          /\ req'.op = "access" /\ resp'.status = 200 =>
               "token" \notin DOMAIN resp'.body.entry]_vars

\* the owner listed a link that was viewed
C5_Witness ==
    /\ req.op = "shares"
    /\ Len(resp.body.links) > 0
    /\ resp.body.links[1].viewCount > 0
    /\ resp.body.links[1].token = <<>>

-----------------------------------------------------------------------------
(* GET /api/share/:token, await by await (SpecShareConc) *)

\* a visitor's request that is not running
IdleAccess == [pc |-> "idle", token |-> NoCookie, link |-> 0, resp |-> NoResp]

ShareNotFound == Status(404, [error |-> "Share link not found or expired"])
ShareFailed == Status(500, [error |-> "Failed to access shared entry"])

\* await prisma.sharedLink.findFirst, and the check of the views on the row read
AccessFind(p, token) ==
    LET found == findShareLink(token)
        l == CHOOSE l \in found : TRUE
    IN /\ procs[p].pc = "idle"
       /\ procs' = [procs EXCEPT ![p] =
                      IF found = {}
                      THEN [pc |-> "done", token |-> token, link |-> 0, resp |-> ShareNotFound]
                      ELSE IF sharedLinks[l].viewCount >= sharedLinks[l].maxViews
                      THEN [pc |-> "done", token |-> token, link |-> 0, resp |-> ShareNotFound]
                      ELSE [pc |-> "get", token |-> token, link |-> l,
                            row |-> sharedLinks[l], resp |-> NoResp]]
       /\ hist' = [hist EXCEPT !.shares =
                     [k \in DOMAIN @ |->
                        IF k \in found THEN [@[k] EXCEPT !.accesses = @ + 1] ELSE @[k]]]
       /\ UNCHANGED <<orgVars, authVars, vaultVars, now, ids, req, resp>>

\* await getVaultEntry(shareLink.userId, shareLink.entryId)
AccessGet(p) ==
    LET got == getVaultEntry(procs[p].row.userId, procs[p].row.entryId)
    IN /\ procs[p].pc = "get"
       /\ vaultEntries' = got.table
       /\ procs' = [procs EXCEPT ![p] =
                      CASE got.kind = "ok" ->
                              [pc |-> "update", token |-> @.token, link |-> @.link,
                               row |-> @.row, entry |-> got.entry, resp |-> NoResp]
                        [] got.kind = "null" ->
                              [pc |-> "done", token |-> @.token, link |-> 0,
                               resp |-> ShareNotFound]
                        [] OTHER ->
                              [pc |-> "done", token |-> @.token, link |-> 0,
                               resp |-> ShareFailed]]
       /\ UNCHANGED <<orgVars, authVars, sharedLinks, auditLogs, now, ids, req, resp, hist>>

\* await prisma.sharedLink.update({ where: { id } }), which throws when the row is
\* gone, then the view is returned
AccessUpdate(p) ==
    LET l == procs[p].link
    IN /\ procs[p].pc = "update"
       /\ IF l \notin DOMAIN sharedLinks
          THEN /\ procs' = [procs EXCEPT ![p] =
                              [pc |-> "done", token |-> @.token, link |-> 0,
                               resp |-> ShareFailed]]
               /\ UNCHANGED <<sharedLinks, hist>>
          ELSE /\ sharedLinks' = viewCounted(sharedLinks, l, "ip")
               /\ hist' = [hist EXCEPT !.shares[l].views = @ + 1]
               /\ procs' = [procs EXCEPT ![p] =
                              [pc |-> "done", token |-> @.token, link |-> l,
                               resp |-> Status(200,
                                   [entry |-> sharedEntryView(@.row, @.entry)])]]
       /\ UNCHANGED <<orgVars, authVars, vaultEntries, auditLogs, now, ids, req, resp>>

\* the share the owner of entry 1 made at time 0
FirstShare == [NoShareBody EXCEPT !.entryId = 1, !.includeNotes = "true"]

\* two accounts, the entry of the second one, and a share of it with one view
InitShareConc ==
    /\ users = [id \in 1..2 |->
                  [email |-> IF id = 1 THEN EmailA ELSE EmailB,
                   passwordHash |-> bcryptHash(PwPassw0rd), name |-> "N",
                   wrappedKey |-> wrapKey(generateUserKey(id), MasterKey, "iv1"),
                   createdAt |-> 0]]
    /\ oauthProviders = {}
    /\ refreshTokens = {[tokenHash |-> hashToken(generateSecureToken(id)), userId |-> id,
                         revoked |-> FALSE, expiresAt |-> RefreshLifetime] : id \in 1..2}
    /\ now = 0
    /\ vaultEntries = Inserted(<<>>, 0, <<createVaultEntry(2, FirstBody, "iv1").row>>)
    /\ sharedLinks = Inserted(<<>>, 0,
                        <<createShareLink(2, FirstShare, generateSecureToken(3)).row>>)
    /\ auditLogs = <<logAction(2, "create", 1, FirstBody.title, NoDetails),
                     logAction(2, "share", 1, FirstBody.title,
                               [maxViews |-> 1, expiresAt |-> ShareLifetime])>>
    /\ ids = [user |-> 2, token |-> 2, entry |-> 1, link |-> 1, tag |-> 0, collection |-> 0]
    /\ req = NoReq
    /\ resp = NoResp
    /\ procs = [p \in 1..MaxProcs |-> IdleAccess]
    /\ hist = [NoHist EXCEPT !.shares = <<Remembered(generateSecureToken(3), FirstShare)>>]
    /\ NoOrganization

NextShareConc ==
    \/ \E p \in DOMAIN procs, token \in ShareTokens : AccessFind(p, token)
    \/ \E p \in DOMAIN procs : AccessGet(p)
    \/ \E p \in DOMAIN procs : AccessUpdate(p)
    \/ \E userId \in DOMAIN users : DeleteShare(userId, 1)
    \/ Tick /\ now < ShareLifetime

SpecShareConc == InitShareConc /\ [][NextShareConc]_vars

\* C3: however concurrent accesses with one token interleave, no more than maxViews
\* of them return a view and the stored viewCount never exceeds maxViews
C3_AtomicConsumption ==
    \A l \in DOMAIN sharedLinks :
       /\ sharedLinks[l].viewCount <= sharedLinks[l].maxViews
       /\ hist.shares[l].views <= sharedLinks[l].maxViews
       /\ Cardinality({p \in DOMAIN procs :
                         procs[p].link = l /\ procs[p].resp.status = 200})
             <= sharedLinks[l].maxViews

\* two visitors got a view of a link that allows one
C3_TwoViewsOfOne ==
    \E l \in DOMAIN sharedLinks :
       /\ sharedLinks[l].maxViews = 1
       /\ sharedLinks[l].viewCount = 2
       /\ \A p \in 1..2 : procs[p].pc = "done" /\ procs[p].resp.status = 200

-----------------------------------------------------------------------------
(* The secret of an entry through creates, updates and reads (SpecSecret) *)

MaxSecretAudit == 4

SecretUpdateBodies ==
    {[NoBody EXCEPT !.password = PwHunter],
     [NoBody EXCEPT !.password = PwDigits, !.title = "Mail"],
     [NoBody EXCEPT !.title = "Mail", !.isFavorite = "true"],
     [NoBody EXCEPT !.password = PwEmpty]}

NextSecret ==
    \/ \E body \in CreateBodies :
          PostPassword(2, body, "iv1") /\ AuditWithin(MaxSecretAudit)
    \/ \E userId \in DOMAIN users, id \in EntryIds :
          GetPassword(userId, id) /\ AuditWithin(MaxSecretAudit)
    \/ \E userId \in DOMAIN users, id \in EntryIds, body \in SecretUpdateBodies :
          PutPassword(userId, id, body, "iv2") /\ AuditWithin(MaxSecretAudit)
    \/ \E id \in EntryIds : DeletePassword(2, id) /\ AuditWithin(MaxSecretAudit)

SpecSecret == InitVault /\ [][NextSecret]_vars

\* the three stored components of a secret, and the strength stored with them
SecretOf(entry) == <<entry.passwordCiphertext, entry.iv, entry.tag>>
\* the components are one encryption of text under the key of the owner
SealedFor(entry, text) ==
    LET opened == decryptVaultValue(entry.passwordCiphertext, entry.iv, entry.tag,
                                    generateUserKey(entry.userId))
    IN opened.ok /\ opened.value = text

\* C11: get by the owner returns the secret of the most recent successful create or
\* secret-changing update: a create stores the secret it was given, get answers
\* with the stored secret, and the stored components change only in a successful
\* update by the owner whose patch holds a secret, which replaces ciphertext,
\* nonce and tag together by one encryption of the new secret; an update without
\* a secret leaves ciphertext, nonce, tag and strength as they were
C11_GetReturnsLastSecret ==
    [][/\ req'.op = "get" /\ resp'.status = 200 =>
            /\ SealedFor(vaultEntries[req'.id], resp'.body.entry.password)
            /\ SecretOf(vaultEntries'[req'.id]) = SecretOf(vaultEntries[req'.id])
       /\ req'.op = "create" /\ resp'.status = 201 =>
            /\ resp'.body.entry.id \notin DOMAIN vaultEntries
            /\ SealedFor(vaultEntries'[resp'.body.entry.id], req'.body.password)
       /\ req'.op = "update" /\ resp'.status = 200 /\ req'.body.password = UndefPw =>
            /\ SecretOf(vaultEntries'[req'.id]) = SecretOf(vaultEntries[req'.id])
            /\ vaultEntries'[req'.id].strength = vaultEntries[req'.id].strength
       /\ req'.op = "update" /\ resp'.status = 200 /\ req'.body.password # UndefPw =>
            /\ SealedFor(vaultEntries'[req'.id], req'.body.password)
            /\ resp'.body.entry.password = req'.body.password
       /\ \A id \in DOMAIN vaultEntries \cap DOMAIN vaultEntries' :
            SecretOf(vaultEntries'[id]) # SecretOf(vaultEntries[id])
               \/ vaultEntries'[id].strength # vaultEntries[id].strength =>
                  /\ req'.op = "update"
                  /\ req'.id = id
                  /\ req'.userId = vaultEntries[id].userId
                  /\ req'.body.password # UndefPw
                  /\ resp'.status = 200
                  /\ SealedFor(vaultEntries'[id], req'.body.password)]_vars

\* the owner read the first entry after two updates, the first with a new secret
\* and the second without one, and got the secret of the first update
C11_Witness ==
    /\ req.op = "get"
    /\ req.userId = 2
    /\ req.id = 1
    /\ resp.status = 200
    /\ resp.body.entry.password = PwHunter
    /\ resp.body.entry.title = "Mail"
    /\ resp.body.entry.isFavorite

-----------------------------------------------------------------------------
(* What a list response holds (SpecVault) *)

\* the columns of an entry that hold its secret
SecretColumns == {"passwordCiphertext", "iv", "tag"}

\* C12: for every filter, no item of a list response holds the secret: an item
\* has no password field and no ciphertext, nonce or auth tag column, and each of
\* its fields is the id of an entry of the caller or the value of the column of
\* that name, which is not a secret column
C12_ListHidesSecrets ==
    [][req'.op = "list" /\ resp'.status = 200 =>
          \A i \in DOMAIN resp'.body.entries :
             LET item == resp'.body.entries[i]
             IN /\ "password" \notin DOMAIN item
                /\ DOMAIN item \cap SecretColumns = {}
                /\ item.id \in OwnedBy(req'.userId)
                /\ \A field \in DOMAIN item \ {"id"} :
                      /\ field \in DOMAIN vaultEntries[item.id]
                      /\ item[field] = vaultEntries[item.id][field]]_vars

\* an account with two entries listed them, unfiltered, and got both
C12_Witness ==
    /\ req.op = "list"
    /\ req.options = NoOptions
    /\ resp.status = 200
    /\ Len(resp.body.entries) = 2
    /\ \A i \in 1..2 : PlaintextOf(vaultEntries[resp.body.entries[i].id]) # <<>>

\* a list filtered on strength returned one of the two entries of the caller
C12_FilteredWitness ==
    /\ req.op = "list"
    /\ req.options.strengthMin = 4
    /\ resp.status = 200
    /\ Len(resp.body.entries) = 1
    /\ Cardinality(OwnedBy(req.userId)) = 2

-----------------------------------------------------------------------------
(* The order of a list response (SpecVault) *)

\* entry a comes before entry b in the order of the claim: pinned first, then
\* favourites, then the later updatedAt, then the id
TotalOrderBefore(a, b) ==
    \/ listOrderBefore(a, b)
    \/ /\ ~listOrderBefore(b, a)
       /\ a < b

\* C13: the result of list is totally ordered, entries equal on isPinned,
\* isFavorite and updatedAt coming in the order of their ids
C13_ListTotallyOrdered ==
    [][req'.op = "list" /\ resp'.status = 200 =>
          \A i, j \in DOMAIN resp'.body.entries :
             i < j => TotalOrderBefore(resp'.body.entries[i].id,
                                       resp'.body.entries[j].id)]_vars

\* what does hold: the result is ordered on the three keys of the orderBy
C13_ListOrderedOnKeys ==
    [][req'.op = "list" /\ resp'.status = 200 =>
          \A i, j \in DOMAIN resp'.body.entries :
             i < j => ~listOrderBefore(resp'.body.entries[j].id,
                                       resp'.body.entries[i].id)]_vars

\* a list of two entries equal on the three keys came with the later id first
C13_TieAgainstIds ==
    /\ req.op = "list"
    /\ resp.status = 200
    /\ Len(resp.body.entries) = 2
    /\ resp.body.entries[1].id > resp.body.entries[2].id
    /\ ~listOrderBefore(resp.body.entries[1].id, resp.body.entries[2].id)

-----------------------------------------------------------------------------
(* The audit log (SpecVault) *)

\* C14: the audit log is append-only: no step removes an audit record or changes
\* a field of one, so the records of every state are among those of every later
\* state; reading the log writes nothing
C14_AuditAppendOnly ==
    [][/\ Len(auditLogs') >= Len(auditLogs)
       /\ \A n \in DOMAIN auditLogs : auditLogs'[n] = auditLogs[n]
       /\ req'.op = "audit" => auditLogs' = auditLogs]_vars

\* an entry was deleted, and the record of its creation is still in the log,
\* followed by the record of the deletion
C14_Witness ==
    /\ req.op = "delete"
    /\ resp.status = 200
    /\ req.id \notin DOMAIN vaultEntries
    /\ Len(auditLogs) = 2
    /\ auditLogs[1].action = "create"
    /\ auditLogs[1].entryId = req.id
    /\ auditLogs[2].action = "delete"

\* the owner of two records read the log
C14_ReadWitness ==
    /\ req.op = "audit"
    /\ resp.status = 200
    /\ resp.body.total = 2
    /\ Len(auditLogs) = 2

\* the audit action of each vault operation
AuditedOps == {"create", "direct-save", "get", "update", "delete", "export", "import"}
ActionOf(op) ==
    CASE op \in {"create", "direct-save"} -> "create"
      [] op = "get" -> "reveal"
      [] OTHER -> op

\* the one record a step appended
Appended == auditLogs'[Len(auditLogs')]

\* C15: each successful vault operation appends exactly one audit record for the
\* caller with the matching action, create and direct-save naming the new entry
\* and get, update and delete the entry of the request; an operation that fails,
\* or that targets an entry the caller does not own, appends none
C15_OneRecordPerOperation ==
    [][/\ req'.op \in AuditedOps /\ resp'.status \in {200, 201} =>
            /\ Len(auditLogs') = Len(auditLogs) + 1
            /\ SubSeq(auditLogs', 1, Len(auditLogs)) = auditLogs
            /\ Appended.userId = req'.userId
            /\ Appended.action = ActionOf(req'.op)
            /\ req'.op \in {"create", "direct-save"} =>
                  /\ Appended.entryId = resp'.body.entry.id
                  /\ Appended.entryId \in DOMAIN vaultEntries' \ DOMAIN vaultEntries
            /\ req'.op \in {"get", "update", "delete"} =>
                  /\ Appended.entryId = req'.id
                  /\ req'.id \in OwnedBy(req'.userId)
       /\ req'.op \in AuditedOps /\ resp'.status \notin {200, 201} =>
            auditLogs' = auditLogs
       /\ req'.op \in {"get", "update", "delete"} /\ req'.id \notin OwnedBy(req'.userId) =>
            auditLogs' = auditLogs]_vars

\* a successful get appended the reveal record of the entry
C15_Witness ==
    /\ req.op = "get"
    /\ resp.status = 200
    /\ Len(auditLogs) = 2
    /\ auditLogs[2].action = "reveal"
    /\ auditLogs[2].entryId = req.id
    /\ auditLogs[2].userId = req.userId

\* an update of an entry of the other account was refused and left no record
C15_RefusedWitness ==
    /\ req.op = "update"
    /\ req.userId = 1
    /\ req.id \in OwnedBy(2)
    /\ resp.status = 404
    /\ Len(auditLogs) = 1

-----------------------------------------------------------------------------
(* Audit records of sign-ins (SpecAuth) and of share accesses (SpecShare) *)

\* C16: every successful register and every successful login appends a login
\* audit record for the account that was signed in
C16_SignInIsAudited ==
    [][req'.op \in {"register", "login"} /\ resp'.status \in {200, 201} =>
          /\ Len(auditLogs') = Len(auditLogs) + 1
          /\ Appended.action = "login"
          /\ Appended.userId = resp'.body.user.id]_vars

\* what the routes do: no authentication route writes an audit record
C16_SignInLeavesNoRecord ==
    [][req'.op \in {"register", "login"} => auditLogs' = auditLogs]_vars

\* an account was signed in by login, and the audit log is empty
C16_SignedInUnaudited ==
    /\ req.op = "login"
    /\ resp.status = 200
    /\ resp.body.user.id \in DOMAIN users
    /\ auditLogs = <<>>

\* C17: every successful share access appends one share_access audit record
\* whose account is the account that issued the capability
C17_ShareAccessIsAudited ==
    [][req'.op = "access" /\ resp'.status = 200 =>
          /\ Len(auditLogs') = Len(auditLogs) + 1
          /\ Appended.action = "share_access"
          /\ \E l \in LinkOf(req'.token) : Appended.userId = sharedLinks[l].userId]_vars

\* what the route does: an access counts a view and writes no audit record
C17_ShareAccessLeavesNoRecord ==
    [][req'.op = "access" => auditLogs' = auditLogs]_vars

\* a share was accessed, and the log holds no share_access record
C17_AccessedUnaudited ==
    /\ req.op = "access"
    /\ resp.status = 200
    /\ \A n \in DOMAIN auditLogs : auditLogs[n].action # "share_access"

-----------------------------------------------------------------------------
(* Requests during which the audit write fails (SpecAuditDown) *)

MaxDownAudit == 2

\* the message of the error prisma.auditLog.create rejects with
AuditWriteFailed == "Can't reach database server"

\* POST /api/passwords when logAction throws: the entry is inserted, the throw
\* lands in the catch of the route
PostPasswordAuditDown(userId, body, iv) ==
    LET made == createVaultEntry(userId, body, iv)
    IN /\ ids.entry < MaxEntries
       /\ req' = [op |-> "create", userId |-> userId, body |-> body]
       /\ IF ~createPasswordSchema(body)
          THEN /\ resp' = ValidationFailed
               /\ UNCHANGED <<vaultEntries, ids>>
          ELSE IF ~made.ok
          THEN /\ resp' = Status(500, [error |-> "Failed"])
               /\ UNCHANGED <<vaultEntries, ids>>
          ELSE /\ vaultEntries' = Inserted(vaultEntries, ids.entry, <<made.row>>)
               /\ ids' = [ids EXCEPT !.entry = @ + 1]
               /\ resp' = Status(500, [error |-> AuditWriteFailed])
       /\ UNCHANGED <<orgVars, authVars, sharedLinks, auditLogs, now, procs, hist>>

\* GET /api/passwords/:id when logAction throws
GetPasswordAuditDown(userId, entryId) ==
    LET got == getVaultEntry(userId, entryId)
    IN /\ req' = [op |-> "get", userId |-> userId, id |-> entryId]
       /\ vaultEntries' = got.table
       /\ resp' = CASE got.kind = "null" -> NotFoundEntry
                    [] got.kind = "throw" -> Status(500, [error |-> "Failed"])
                    [] got.kind = "ok" -> Status(500, [error |-> AuditWriteFailed])
       /\ UNCHANGED <<orgVars, authVars, sharedLinks, auditLogs, now, ids, procs, hist>>

\* PUT /api/passwords/:id when logAction throws
PutPasswordAuditDown(userId, entryId, body, iv) ==
    LET put == updateVaultEntry(userId, entryId, body, iv)
    IN /\ req' = [op |-> "update", userId |-> userId, id |-> entryId, body |-> body]
       /\ IF ~updatePasswordSchema(body)
          THEN /\ resp' = ValidationFailed
               /\ UNCHANGED vaultEntries
          ELSE /\ vaultEntries' = put.table
               /\ resp' = CASE put.kind = "null" -> NotFoundEntry
                            [] put.kind = "throw" -> Status(500, [error |-> "Failed"])
                            [] put.kind = "ok" -> Status(500, [error |-> AuditWriteFailed])
       /\ UNCHANGED <<orgVars, authVars, sharedLinks, auditLogs, now, ids, procs, hist>>

\* the vault routes of account 2, the audit write failing in some requests; reads
\* and updates are those of its first entry
NextAuditDown ==
    \/ \E body \in CreateBodies :
          PostPassword(2, body, "iv1") /\ AuditWithin(MaxDownAudit)
    \/ \E body \in CreateBodies : PostPasswordAuditDown(2, body, "iv1")
    \/ GetPassword(2, 1) /\ AuditWithin(MaxDownAudit)
    \/ GetPasswordAuditDown(2, 1)
    \/ \E body \in UpdateBodies :
          PutPassword(2, 1, body, "iv2") /\ AuditWithin(MaxDownAudit)
    \/ \E body \in UpdateBodies : PutPasswordAuditDown(2, 1, body, "iv2")

SpecAuditDown == InitVault /\ [][NextAuditDown]_vars

\* C18: a failure to write the audit record does not fail the principal
\* operation: a create that inserted its entry, an update that wrote its row and
\* a get that decrypted the entry and stamped lastUsedAt answer with their
\* success response, whether or not the audit record could be written
C18_AuditFailureIsNotFatal ==
    [][/\ req'.op = "create" /\ DOMAIN vaultEntries' # DOMAIN vaultEntries =>
            resp'.status = 201
       /\ req'.op = "update" /\ req'.id \in OwnedBy(req'.userId)
             /\ updatePasswordSchema(req'.body) =>
            resp'.status = 200
       /\ req'.op = "get" /\ req'.id \in OwnedBy(req'.userId) =>
            resp'.status = 200]_vars

\* what the routes do: every success response follows an appended audit record
C18_SuccessOnlyWithRecord ==
    [][req'.op \in {"create", "update", "get"} /\ resp'.status \in {200, 201} =>
          Len(auditLogs') = Len(auditLogs) + 1]_vars

\* a create inserted its entry, wrote no audit record and answered 500
C18_CommittedButFailed ==
    /\ req.op = "create"
    /\ resp = Status(500, [error |-> AuditWriteFailed])
    /\ DOMAIN vaultEntries = 1..2
    /\ Len(auditLogs) = 1

-----------------------------------------------------------------------------
(* The health analysis over vaults of every content (SpecHealth) *)

MaxHealthEntries == 3

\* the rows a vault may hold: entries of account 2 with a weak, a medium, a strong
\* and an empty secret, one whose auth tag is that of another nonce, and
\* an entry of account 1
HealthKinds == {"weak", "medium", "strong", "empty", "broken", "other"}
HealthRow(kind) ==
    LET body == [NoBody EXCEPT !.title = kind,
                               !.password = CASE kind = "medium" -> PwDigits
                                              [] kind = "strong" -> PwStrong
                                              [] kind = "empty" -> PwEmpty
                                              [] OTHER -> PwAaa]
        row == createVaultEntry(IF kind = "other" THEN 1 ELSE 2, body, "iv1").row
    IN IF kind = "broken"
       THEN [row EXCEPT !.tag = ToBase64(GcmTag(generateUserKey(2), "iv0",
                                                FromBase64(row.passwordCiphertext)))]
       ELSE row

InitHealth ==
    /\ users = [id \in 1..2 |->
                  [email |-> IF id = 1 THEN EmailA ELSE EmailB,
                   passwordHash |-> bcryptHash(PwPassw0rd), name |-> "N",
                   wrappedKey |-> wrapKey(generateUserKey(id), MasterKey, "iv1"),
                   createdAt |-> 0]]
    /\ oauthProviders = {}
    /\ refreshTokens = {}
    /\ now = 0
    /\ \E n \in 0..MaxHealthEntries : \E kinds \in [1..n -> HealthKinds] :
          /\ vaultEntries = [id \in 1..n |-> HealthRow(kinds[id])]
          /\ ids = [user |-> 2, token |-> 0, entry |-> n, link |-> 0, tag |-> 0, collection |-> 0]
    /\ sharedLinks = <<>>
    /\ auditLogs = <<>>
    /\ req = NoReq
    /\ resp = NoResp
    /\ procs = <<>>
    /\ hist = NoHist
    /\ NoOrganization

NextHealth == \E userId \in DOMAIN users : GetHealth(userId)

SpecHealth == InitHealth /\ [][NextHealth]_vars

\* the owned entries whose stored components open under the key of the owner to
\* a secret that is not empty, and those that do not
WithSecret(userId) ==
    {id \in OwnedBy(userId) :
        /\ vaultEntries[id].tag =
              ToBase64(GcmTag(generateUserKey(userId), "iv1",
                              FromBase64(vaultEntries[id].passwordCiphertext)))
        /\ PlaintextOf(vaultEntries[id]) # <<>>}
SharesSecret(userId) ==
    {id \in WithSecret(userId) :
        \E other \in WithSecret(userId) \ {id} :
           PlaintextOf(vaultEntries[other]) = PlaintextOf(vaultEntries[id])}

\* C19: health never fails on an entry that does not decrypt, and returns total =
\* the number of owned entries, strong, medium and weak = the owned entries with a
\* secret of strength >= 4, 2..3 and <= 1, noPassword = the owned entries whose
\* secret is empty or does not decrypt, so that every owned entry is counted in
\* exactly one of the four, and reused = the owned entries whose secret is that of
\* another owned entry
C19_HealthCounts ==
    req.op = "health" =>
       /\ resp.status = 200
       /\ LET health == resp.body.health
              mine == OwnedBy(req.userId)
              rated == WithSecret(req.userId)
          IN /\ health.total = Cardinality(mine)
             /\ health.strong = Cardinality({id \in rated : vaultEntries[id].strength >= 4})
             /\ health.medium = Cardinality({id \in rated : vaultEntries[id].strength \in 2..3})
             /\ health.weak = Cardinality({id \in rated : vaultEntries[id].strength <= 1})
             /\ health.noPassword = Cardinality(mine \ rated)
             /\ health.strong + health.medium + health.weak + health.noPassword
                   = health.total
             /\ health.reused = Cardinality(SharesSecret(req.userId))

\* three entries with one shared secret give reused = 3
C19_Witness ==
    /\ req.op = "health"
    /\ resp.status = 200
    /\ Cardinality(OwnedBy(req.userId)) = 3
    /\ Cardinality(WithSecret(req.userId)) = 3
    /\ resp.body.health.reused = 3

\* an entry that does not decrypt and an entry with an empty secret were counted
\* as noPassword next to a strong entry
C19_BrokenWitness ==
    /\ req.op = "health"
    /\ resp.status = 200
    /\ \E id \in OwnedBy(req.userId) : vaultEntries[id].title = "broken"
    /\ \E id \in OwnedBy(req.userId) : vaultEntries[id].title = "empty"
    /\ resp.body.health.noPassword = 2
    /\ resp.body.health.strong = 1
    /\ resp.body.health.reused = 0

-----------------------------------------------------------------------------
(* Imports into vaults of two accounts (SpecImport) *)

MaxImportAudit == 2

\* two accounts and an empty vault
InitImport ==
    /\ users = [id \in 1..2 |->
                  [email |-> IF id = 1 THEN EmailA ELSE EmailB,
                   passwordHash |-> bcryptHash(PwPassw0rd), name |-> "N",
                   wrappedKey |-> wrapKey(generateUserKey(id), MasterKey, "iv1"),
                   createdAt |-> 0]]
    /\ oauthProviders = {}
    /\ refreshTokens = {}
    /\ now = 0
    /\ vaultEntries = <<>>
    /\ sharedLinks = <<>>
    /\ auditLogs = <<>>
    /\ ids = [user |-> 2, token |-> 0, entry |-> 0, link |-> 0, tag |-> 0, collection |-> 0]
    /\ req = NoReq
    /\ resp = NoResp
    /\ procs = <<>>
    /\ hist = NoHist
    /\ NoOrganization

\* entries of an import: one without a secret, one without a title, one with an
\* empty secret and two complete ones
NoSecretEntry == [NoBody EXCEPT !.title = "No password"]
NoTitleEntry == [NoBody EXCEPT !.password = PwHunter]
EmptySecretEntry == [NoBody EXCEPT !.title = "Empty", !.password = PwEmpty]
GmailEntry == [NoBody EXCEPT !.title = "Gmail (Imported)", !.password = PwDigits]
BankEntry == [NoBody EXCEPT !.title = "Bank", !.password = PwAaa, !.isPinned = "true"]
ImportMixes ==
    {[isArray |-> FALSE, entries |-> <<>>],
     [isArray |-> TRUE, entries |-> <<>>],
     [isArray |-> TRUE, entries |-> <<NoSecretEntry, GmailEntry>>],
     [isArray |-> TRUE, entries |-> <<GmailEntry, NoTitleEntry, BankEntry>>],
     [isArray |-> TRUE, entries |-> <<NoSecretEntry, NoTitleEntry>>],
     [isArray |-> TRUE, entries |-> <<EmptySecretEntry>>]}

\* an item of an export sent back as an entry of an import
exportedAsInput(item) ==
    [NoBody EXCEPT !.title = item.title, !.username = item.username,
                   !.password = item.password, !.site = item.site,
                   !.notes = item.notes, !.collectionId = item.collectionId,
                   !.isFavorite = IF item.isFavorite THEN "true" ELSE "false",
                   !.isPinned = IF item.isPinned THEN "true" ELSE "false",
                   !.strength = item.strength]
ReImports(userId) ==
    {[isArray |-> TRUE, entries |-> [i \in DOMAIN entries |-> exportedAsInput(entries[i])]] :
        entries \in getFullVault(userId)}

NextImport ==
    \/ \E body \in DirectSaveBodies :
          PostDirectSave(2, body, "iv1") /\ AuditWithin(MaxImportAudit)
    \/ \E userId \in DOMAIN users, body \in ImportMixes :
          /\ PostImport(userId, body, [i \in 1..Len(body.entries) |-> "iv1"])
          /\ AuditWithin(MaxImportAudit)
    \/ \E body \in ReImports(2) :
          /\ PostImport(2, body, [i \in 1..Len(body.entries) |-> "iv1"])
          /\ AuditWithin(MaxImportAudit)

SpecImport == InitImport /\ [][NextImport]_vars

\* an entry the store and the cipher accept: it has a title, and its secret is a
\* string
Insertable(entry) == entry.title # Undef /\ entry.password # UndefPw

C20_ReImportWitness ==
    /\ req.op = "import"
    /\ resp.status = 200
    /\ resp.body.count = 1
    /\ Len(vaultEntries) = 2
    /\ vaultEntries[2].title = vaultEntries[1].title
    /\ PlaintextOf(vaultEntries[2]) = PlaintextOf(vaultEntries[1])
    /\ PlaintextOf(vaultEntries[1]) = PwReuse

-----------------------------------------------------------------------------
(* services/tagService.ts, requests in flight together (SpecTagConc) *)

MaxTags == 2

\* two registered accounts
TwoAccounts ==
    /\ users = [id \in 1..2 |->
                  [email |-> IF id = 1 THEN EmailA ELSE EmailB,
                   passwordHash |-> bcryptHash(PwPassw0rd), name |-> "N",
                   wrappedKey |-> wrapKey(generateUserKey(id), MasterKey, "iv1"),
                   createdAt |-> 0]]
    /\ oauthProviders = {}
    /\ refreshTokens = {}

\* the unique index Tag_userId_name_key: the rows that hold the pair
tagsNever(userId, name) == {}
tagsNamed(userId, name) ==
    {t \in DOMAIN tags : tags[t].userId = userId /\ tags[t].name = name}

formatTagResponse(id) ==
    [id |-> id, name |-> tags[id].name, color |-> tags[id].color,
     entryCount |-> Cardinality({t \in vaultEntryTags : t.tagId = id})]

\* the error prisma.tag.create throws on the unique index
TagConstraintFailed == "Unique constraint failed on the fields: (userId,name)"

IdleTag == [pc |-> "idle", op |-> "none", userId |-> 0, name |-> Undef, resp |-> NoResp]

\* POST /api/tags arrives: the name is required; then createTag
CreateTagStart(p, userId, name) ==
    /\ procs[p].pc \in {"idle", "done"}
    /\ procs' = [procs EXCEPT ![p] =
                   [pc |-> IF name = Undef THEN "done" ELSE "create", op |-> "createTag",
                    userId |-> userId, name |-> name,
                    resp |-> IF name = Undef
                             THEN Status(400, [error |-> "Name is required"])
                             ELSE NoResp]]
    /\ UNCHANGED <<orgVars, authVars, vaultVars, now, ids, req, resp, hist>>

\* getOrCreateTag is called
GetOrCreateTagStart(p, userId, name) ==
    /\ procs[p].pc \in {"idle", "done"}
    /\ procs' = [procs EXCEPT ![p] =
                   [pc |-> "find", op |-> "getOrCreateTag", userId |-> userId,
                    name |-> name, resp |-> NoResp]]
    /\ UNCHANGED <<orgVars, authVars, vaultVars, now, ids, req, resp, hist>>

\* getOrCreateTag: await prisma.tag.findFirst({ where: { userId, name } })
TagFind(p) ==
    LET found == tagsNamed(procs[p].userId, procs[p].name)
    IN /\ procs[p].pc = "find"
       /\ procs' = [procs EXCEPT ![p] =
                      IF found # {}
                      THEN [@ EXCEPT !.pc = "done",
                                     !.resp = [tag |-> formatTagResponse(CHOOSE t \in found : TRUE)]]
                      ELSE [@ EXCEPT !.pc = "create"]]
       /\ UNCHANGED <<orgVars, authVars, vaultVars, now, ids, req, resp, hist>>

\* await prisma.tag.create: the unique index refuses a second row of the pair;
\* the route of createTag answers a throw with 500, getOrCreateTag lets it pass
TagCreate(p) ==
    LET id == ids.tag + 1
        row == [userId |-> procs[p].userId, name |-> procs[p].name, color |-> Null,
                createdAt |-> now]
    IN /\ procs[p].pc = "create"
       /\ IF tagsNamed(procs[p].userId, procs[p].name) # {}
          THEN /\ procs' = [procs EXCEPT
                              ![p].pc = "done",
                              ![p].resp = IF procs[p].op = "createTag"
                                          THEN Status(500, [error |-> "Failed to create tag"])
                                          ELSE [throws |-> TagConstraintFailed]]
               /\ UNCHANGED <<tags, ids>>
          ELSE /\ ids.tag < MaxTags
               /\ tags' = (id :> row) @@ tags
               /\ ids' = [ids EXCEPT !.tag = id]
               /\ procs' = [procs EXCEPT
                              ![p].pc = "done",
                              ![p].resp = IF procs[p].op = "createTag"
                                          THEN Status(201, [tag |-> [id |-> id, name |-> row.name,
                                                                     color |-> row.color,
                                                                     entryCount |-> 0]])
                                          ELSE [tag |-> [id |-> id, name |-> row.name,
                                                         color |-> row.color,
                                                         entryCount |-> 0]]]
       /\ UNCHANGED <<collections, vaultEntryTags, authVars, vaultVars, now, req, resp, hist>>

InitTagConc ==
    /\ TwoAccounts
    /\ vaultEntries = <<>>
    /\ sharedLinks = <<>>
    /\ auditLogs = <<>>
    /\ now = 0
    /\ ids = [NoIds EXCEPT !.user = 2]
    /\ req = NoReq
    /\ resp = NoResp
    /\ procs = [p \in 1..MaxProcs |-> IdleTag]
    /\ hist = NoHist
    /\ NoOrganization

TagNames == {"work", "home"}

NextTagConc ==
    \/ \E p \in DOMAIN procs, userId \in DOMAIN users, name \in TagNames \cup {Undef} :
          CreateTagStart(p, userId, name)
    \/ \E p \in DOMAIN procs, userId \in DOMAIN users, name \in TagNames :
          GetOrCreateTagStart(p, userId, name)
    \/ \E p \in DOMAIN procs : TagFind(p)
    \/ \E p \in DOMAIN procs : TagCreate(p)

SpecTagConc == InitTagConc /\ [][NextTagConc]_vars

\* C21: in every reachable state no two Tag rows share (accountId, name), and
\* when two creations for one pair, by createTag or by getOrCreateTag, have both
\* ended, exactly one row holds the pair
C21_OneTagPerName ==
    /\ \A a, b \in DOMAIN tags :
          tags[a].userId = tags[b].userId /\ tags[a].name = tags[b].name => a = b
    /\ \A p, q \in DOMAIN procs :
          /\ p # q
          /\ procs[p].pc = "done" /\ procs[q].pc = "done"
          /\ procs[p].name # Undef
          /\ procs[p].userId = procs[q].userId /\ procs[p].name = procs[q].name
          => Cardinality({t \in DOMAIN tags : tags[t].userId = procs[p].userId
                                              /\ tags[t].name = procs[p].name}) = 1

\* two calls of getOrCreateTag for one pair both found no row, one created it and
\* the other was refused by the unique index
C21_Witness ==
    /\ procs[1].pc = "done" /\ procs[2].pc = "done"
    /\ procs[1].op = "getOrCreateTag" /\ procs[2].op = "getOrCreateTag"
    /\ procs[1].userId = procs[2].userId /\ procs[1].name = procs[2].name
    /\ "tag" \in DOMAIN procs[1].resp
    /\ procs[2].resp = [throws |-> TagConstraintFailed]
    /\ Cardinality(DOMAIN tags) = 1

\* two requests to createTag for one pair: one got 201, the other 500
C21_CreateWitness ==
    /\ procs[1].pc = "done" /\ procs[2].pc = "done"
    /\ procs[1].op = "createTag" /\ procs[2].op = "createTag"
    /\ procs[1].userId = procs[2].userId /\ procs[1].name = procs[2].name
    /\ procs[1].resp.status = 201
    /\ procs[2].resp.status = 500

-----------------------------------------------------------------------------
(* services/collectionService.ts and routes/collections.ts *)

MaxCollections == 1

\* the id of the n-th collection
collectionIdOf(n) == "c" \o ToString(n)

createCollection(userId, input) ==
    [userId |-> userId, name |-> input.name, createdAt |-> now, updatedAt |-> now]

\* deleteMany({ where: { id: collectionId, userId } }): the ids deleted
deleteCollection(userId, collectionId) ==
    {c \in DOMAIN collections : c = collectionId /\ collections[c].userId = userId}

\* ON DELETE SET NULL of VaultEntry.collectionId
EntriesOutOfDropping(gone) ==
    [id \in {id \in DOMAIN vaultEntries : vaultEntries[id].collectionId \notin gone} |->
        vaultEntries[id]]
EntriesOutOf(gone) ==
    [id \in DOMAIN vaultEntries |->
        IF vaultEntries[id].collectionId \in gone
        THEN [vaultEntries[id] EXCEPT !.collectionId = Null]
        ELSE vaultEntries[id]]

\* moveEntriesToCollection: a throw when the collection is not one of the caller,
\* or the entries updateMany changes
moveEntriesToCollection(userId, entryIds, collectionId) ==
    IF collectionId # Null
          /\ ~(collectionId \in DOMAIN collections /\ collections[collectionId].userId = userId)
    THEN [ok |-> FALSE, error |-> "Collection not found"]
    ELSE [ok |-> TRUE,
          moved |-> {id \in DOMAIN vaultEntries :
                        id \in entryIds /\ vaultEntries[id].userId = userId}]

\* POST /api/collections
PostCollection(userId, body) ==
    LET id == collectionIdOf(ids.collection + 1)
    IN /\ req' = [op |-> "collection", userId |-> userId, body |-> body]
       /\ IF body.name \in {Undef, ""}
          THEN /\ resp' = Status(400, [error |-> "Name is required"])
               /\ UNCHANGED <<collections, ids>>
          ELSE /\ ids.collection < MaxCollections
               /\ collections' = (id :> createCollection(userId, body)) @@ collections
               /\ ids' = [ids EXCEPT !.collection = @ + 1]
               /\ resp' = Status(201, [collection |-> [id |-> id, name |-> body.name,
                                                       entryCount |-> 0]])
       /\ UNCHANGED <<tags, vaultEntryTags, authVars, vaultVars, now, procs, hist>>

\* DELETE /api/collections/:id
DeleteCollection(userId, collectionId) ==
    LET gone == deleteCollection(userId, collectionId)
    IN /\ req' = [op |-> "delete-collection", userId |-> userId, id |-> collectionId]
       /\ collections' = [c \in DOMAIN collections \ gone |-> collections[c]]
       /\ vaultEntries' = EntriesOutOf(gone)
       /\ resp' = IF gone = {} THEN Status(404, [error |-> "Collection not found"])
                  ELSE Status(200, [message |-> "Collection deleted"])
       /\ hist' = [hist EXCEPT !.detached = {id \in DOMAIN vaultEntries :
                                                vaultEntries[id].collectionId \in gone}]
       /\ UNCHANGED <<tags, vaultEntryTags, authVars, sharedLinks, auditLogs, now, ids,
                      procs>>

\* POST /api/collections/:id/entries; the id 'null' stands for no collection
PostMoveEntries(userId, param, body) ==
    LET collectionId == IF param = "null" THEN Null ELSE param
        move == moveEntriesToCollection(userId, body.entryIds, collectionId)
    IN /\ req' = [op |-> "move", userId |-> userId, id |-> param, body |-> body]
       /\ IF ~body.isArray
          THEN /\ resp' = Status(400, [error |-> "entryIds must be an array"])
               /\ UNCHANGED vaultEntries
          ELSE IF ~move.ok
          THEN /\ resp' = Status(500, [error |-> move.error])
               /\ UNCHANGED vaultEntries
          ELSE /\ vaultEntries' = [id \in DOMAIN vaultEntries |->
                                     IF id \in move.moved
                                     THEN [vaultEntries[id] EXCEPT !.collectionId = collectionId,
                                                                   !.updatedAt = now]
                                     ELSE vaultEntries[id]]
               /\ resp' = Status(200, [count |-> Cardinality(move.moved)])
       /\ UNCHANGED <<orgVars, authVars, sharedLinks, auditLogs, now, ids, procs, hist>>

-----------------------------------------------------------------------------
(* toggleFavorite, togglePinned, bulkDeleteEntries and their routes *)

EntryNotFound == "Entry not found"

\* toggleFavorite and togglePinned: a throw when the entry is not one of the
\* caller, or the row with the flag flipped
toggleFlag(userId, entryId, flag) ==
    IF findEntry(userId, entryId) = {}
    THEN [ok |-> FALSE, error |-> EntryNotFound]
    ELSE [ok |-> TRUE,
          value |-> ~vaultEntries[entryId][flag],
          row |-> [vaultEntries[entryId] EXCEPT ![flag] = ~@, !.updatedAt = now]]

\* POST /api/passwords/:id/favorite and POST /api/passwords/:id/pin
PostToggle(userId, entryId, op, flag) ==
    LET toggled == toggleFlag(userId, entryId, flag)
    IN /\ req' = [op |-> op, userId |-> userId, id |-> entryId]
       /\ IF ~toggled.ok
          THEN /\ resp' = Status(500, [error |-> toggled.error])
               /\ UNCHANGED vaultEntries
          ELSE /\ vaultEntries' = [vaultEntries EXCEPT ![entryId] = toggled.row]
               /\ resp' = Status(200, [value |-> toggled.value])
       /\ UNCHANGED <<orgVars, authVars, sharedLinks, auditLogs, now, ids, procs, hist>>

PostFavorite(userId, entryId) == PostToggle(userId, entryId, "favorite", "isFavorite")
PostPin(userId, entryId) == PostToggle(userId, entryId, "pin", "isPinned")

\* deleteMany({ where: { id: { in: entryIds }, userId } }): the ids deleted
bulkDeleteListed(userId, entryIds) ==
    {id \in DOMAIN vaultEntries : id \in entryIds}
bulkDeleteEntries(userId, entryIds) ==
    {id \in DOMAIN vaultEntries : id \in entryIds /\ vaultEntries[id].userId = userId}

\* POST /api/passwords/bulk-delete
PostBulkDelete(userId, body) ==
    LET gone == bulkDeleteEntries(userId, body.entryIds)
    IN /\ req' = [op |-> "bulk-delete", userId |-> userId, body |-> body]
       /\ IF ~body.isArray
          THEN /\ resp' = Status(400, [error |-> "entryIds must be an array"])
               /\ UNCHANGED <<vaultEntries, sharedLinks, auditLogs, vaultEntryTags>>
          ELSE /\ vaultEntries' = Without(vaultEntries, gone)
               /\ sharedLinks' = LinksWithout(gone)
               /\ vaultEntryTags' = EntryTagsWithout(gone)
               /\ auditLogs' = Logged(logAction(userId, "delete", 0, Undef,
                                                [count |-> Cardinality(gone), bulk |-> TRUE]))
               /\ resp' = Status(200, [count |-> Cardinality(gone)])
       /\ UNCHANGED <<collections, tags, authVars, now, ids, procs, hist>>

-----------------------------------------------------------------------------
(* services/tagService.ts and routes/tags.ts, one request at a time *)

\* addTagsToEntry: a throw when the entry is not one of the caller, or the
\* associations createMany adds (skipDuplicates) for the tags of the caller
addTagsToEntry(userId, entryId, tagIds) ==
    IF findEntry(userId, entryId) = {}
    THEN [ok |-> FALSE, error |-> EntryNotFound]
    ELSE [ok |-> TRUE,
          rows |-> {[entryId |-> entryId, tagId |-> t] :
                      t \in {t \in DOMAIN tags : t \in tagIds /\ tags[t].userId = userId}}]

\* removeTagsFromEntry: the associations deleteMany removes
removeTagsFromEntry(userId, entryId, tagIds) ==
    {t \in vaultEntryTags :
        /\ t.entryId = entryId
        /\ t.tagId \in tagIds
        /\ vaultEntries[t.entryId].userId = userId}

\* POST /api/tags/entries/:entryId
PostEntryTags(userId, entryId, body) ==
    LET added == addTagsToEntry(userId, entryId, body.tagIds)
    IN /\ req' = [op |-> "add-tags", userId |-> userId, id |-> entryId, body |-> body]
       /\ IF ~body.isArray
          THEN /\ resp' = Status(400, [error |-> "tagIds must be an array"])
               /\ UNCHANGED vaultEntryTags
          ELSE IF ~added.ok
          THEN /\ resp' = Status(500, [error |-> added.error])
               /\ UNCHANGED vaultEntryTags
          ELSE /\ vaultEntryTags' = vaultEntryTags \cup added.rows
               /\ resp' = Status(200, [message |-> "Tags added"])
       /\ UNCHANGED <<collections, tags, authVars, vaultVars, now, ids, procs, hist>>

\* DELETE /api/tags/entries/:entryId
DeleteEntryTags(userId, entryId, body) ==
    /\ req' = [op |-> "remove-tags", userId |-> userId, id |-> entryId, body |-> body]
    /\ IF ~body.isArray
       THEN /\ resp' = Status(400, [error |-> "tagIds must be an array"])
            /\ UNCHANGED vaultEntryTags
       ELSE /\ vaultEntryTags' = vaultEntryTags \ removeTagsFromEntry(userId, entryId,
                                                                     body.tagIds)
            /\ resp' = Status(200, [message |-> "Tags removed"])
    /\ UNCHANGED <<collections, tags, authVars, vaultVars, now, ids, procs, hist>>

-----------------------------------------------------------------------------
(* Collections and the entries in them (SpecCollections) *)

\* the collection ids a client may name: those handed out, deleted ones among them
CollectionIds == {collectionIdOf(n) : n \in 1..ids.collection}

CollectionBodies == {[name |-> "Work"], [name |-> Undef]}
MoveBodies ==
    {[isArray |-> TRUE, entryIds |-> S] : S \in SUBSET EntryIds \ {{}}}
        \cup {[isArray |-> FALSE, entryIds |-> {}]}

\* two accounts with an entry each, and no collection yet
InitCollections ==
    /\ TwoAccounts
    /\ now = 0
    /\ vaultEntries = Inserted(<<>>, 0, <<createVaultEntry(2, FirstBody, "iv1").row,
                                          createVaultEntry(1, FirstBody, "iv1").row>>)
    /\ sharedLinks = <<>>
    /\ auditLogs = <<>>
    /\ ids = [NoIds EXCEPT !.user = 2, !.entry = 2]
    /\ req = NoReq
    /\ resp = NoResp
    /\ procs = <<>>
    /\ hist = NoHist
    /\ NoOrganization

NextCollections ==
    \/ \E userId \in DOMAIN users, body \in CollectionBodies : PostCollection(userId, body)
    \/ \E userId \in DOMAIN users, c \in CollectionIds \cup {"null"}, body \in MoveBodies :
          PostMoveEntries(userId, c, body)
    \/ \E userId \in DOMAIN users, c \in CollectionIds : DeleteCollection(userId, c)
    \/ Tick /\ now < MaxVaultTime

SpecCollections == InitCollections /\ [][NextCollections]_vars

\* a step that changed something
Stepped == vars' # vars

OwnsCollection(userId, collectionId) ==
    collectionId \in DOMAIN collections /\ collections[collectionId].userId = userId

\* C22: deleting a collection deletes no entry: after the owner's delete the
\* entries that were in it are still there with collectionId null and every other
\* field as it was; a delete by another account is answered 404 and changes no
\* collection and no entry
C22_DeleteCollectionKeepsEntries ==
    [][Stepped /\ req'.op = "delete-collection" =>
          /\ OwnsCollection(req'.userId, req'.id) =>
                /\ resp'.status = 200
                /\ req'.id \notin DOMAIN collections'
                /\ DOMAIN vaultEntries' = DOMAIN vaultEntries
                /\ \A id \in DOMAIN vaultEntries :
                      vaultEntries'[id] =
                         IF vaultEntries[id].collectionId = req'.id
                         THEN [vaultEntries[id] EXCEPT !.collectionId = Null]
                         ELSE vaultEntries[id]
          /\ ~OwnsCollection(req'.userId, req'.id) =>
                /\ resp'.status = 404
                /\ collections' = collections
                /\ vaultEntries' = vaultEntries
          /\ sharedLinks' = sharedLinks
          /\ vaultEntryTags' = vaultEntryTags]_vars

\* the owner deleted a collection that held an entry, which is still there, at a
\* later time than its last update
C22_Witness ==
    /\ req.op = "delete-collection"
    /\ resp.status = 200
    /\ \E id \in hist.detached :
          /\ id \in DOMAIN vaultEntries
          /\ vaultEntries[id].collectionId = Null
          /\ vaultEntries[id].updatedAt < now

\* another account asked to delete a collection that holds an entry
C22_RefusedWitness ==
    /\ req.op = "delete-collection"
    /\ resp.status = 404
    /\ req.id \in DOMAIN collections
    /\ \E id \in DOMAIN vaultEntries : vaultEntries[id].collectionId = req.id

-----------------------------------------------------------------------------
(* Encryption and key wrapping as functions of their inputs (SpecCrypto) *)

OtherMasterKey == <<"key", "other">>
Plaintexts == {PwEmpty, PwAaa, PwStrong}
UserKeys == {generateUserKey(n) : n \in 1..MaxUsers}
Nonces == {"iv1", "iv2"}

\* a blob with one bit flipped
Flip(bytes) == <<"flip", bytes>>

\* the ways a stored triple is altered before it is decrypted
Alterations == {"none", "ciphertext", "nonce", "tag", "swapped", "short tag"}

Altered(sealed, how, other) ==
    CASE how = "none" -> sealed
      [] how = "ciphertext" ->
            [sealed EXCEPT !.ciphertext = ToBase64(Flip(FromBase64(@)))]
      [] how = "swapped" -> [sealed EXCEPT !.ciphertext = other.ciphertext]
      [] how = "nonce" -> [sealed EXCEPT !.iv = other.iv]
      [] how = "tag" -> [sealed EXCEPT !.tag = ToBase64(Flip(FromBase64(@)))]
      [] how = "short tag" ->
            [sealed EXCEPT !.tag = ToBase64(TagPrefix(FromBase64(@), 4))]

\* encryptVaultValue then decryptVaultValue, the triple altered in between
SealAndOpen(plaintext, userKey, iv, how, with) ==
    LET sealed == encryptVaultValue(plaintext, userKey, iv)
        other == encryptVaultValue(PwReuse, userKey, IF iv = "iv1" THEN "iv2" ELSE "iv1")
        stored == Altered(sealed, how, other)
    IN /\ req' = [op |-> "decrypt", plaintext |-> plaintext, key |-> userKey,
                  altered |-> how, with |-> with, stored |-> stored]
       /\ resp' = decryptVaultValue(stored.ciphertext, stored.iv, stored.tag, with)
       /\ UNCHANGED <<orgVars, authVars, vaultVars, now, ids, procs, hist>>

\* wrapKey then unwrapKey, the blob altered in between
WrapAndUnwrap(userKey, iv, how, with) ==
    LET wrapped == wrapKey(userKey, MasterKey, iv)
        data == FromBase64(wrapped)
        stored == CASE how = "none" -> wrapped
                    [] how = "ciphertext" -> ToBase64(<<data[1], data[2], Flip(data[3])>>)
                    [] how = "nonce" ->
                          ToBase64(<<IF iv = "iv1" THEN "iv2" ELSE "iv1", data[2], data[3]>>)
                    [] how = "tag" -> ToBase64(<<data[1], Flip(data[2]), data[3]>>)
    IN /\ req' = [op |-> "unwrap", plaintext |-> userKey, key |-> MasterKey,
                  altered |-> how, with |-> with, stored |-> stored]
       /\ resp' = unwrapKey(stored, with)
       /\ UNCHANGED <<orgVars, authVars, vaultVars, now, ids, procs, hist>>

NextCrypto ==
    \/ \E plaintext \in Plaintexts, userKey \in UserKeys, iv \in Nonces,
          how \in Alterations, with \in UserKeys :
          SealAndOpen(plaintext, userKey, iv, how, with)
    \/ \E userKey \in UserKeys, iv \in Nonces,
          how \in {"none", "ciphertext", "nonce", "tag"},
          with \in {MasterKey, OtherMasterKey} :
          WrapAndUnwrap(userKey, iv, how, with)

SpecCrypto == InitAuth /\ [][NextCrypto]_vars

\* C23: a decryption or an unwrap returns the plaintext when the key is the one
\* used and nothing was altered, and fails when the key differs or the
\* ciphertext, the nonce or the auth tag was altered
C23_AuthenticatedRoundTrip ==
    req.op \in {"decrypt", "unwrap"} =>
        IF req.with = req.key /\ req.altered = "none"
        THEN resp.ok /\ resp.value = req.plaintext
        ELSE ~resp.ok

\* the same with the auth tag altered in no way but bit flips
C23_RoundTripBitFlips ==
    req.op \in {"decrypt", "unwrap"} /\ req.altered # "short tag" =>
        IF req.with = req.key /\ req.altered = "none"
        THEN resp.ok /\ resp.value = req.plaintext
        ELSE ~resp.ok

\* the empty string came back from its unaltered triple
C23_EmptyRoundTrip ==
    /\ req.op = "decrypt"
    /\ req.altered = "none"
    /\ req.plaintext = PwEmpty
    /\ resp.ok
    /\ resp.value = PwEmpty

\* a triple whose tag was cut to its first four bytes was decrypted
C23_ShortTagOpens ==
    /\ req.op = "decrypt"
    /\ req.altered = "short tag"
    /\ req.with = req.key
    /\ resp.ok
    /\ resp.value = req.plaintext

-----------------------------------------------------------------------------
(* middleware/auth.ts: requireAuth in front of a protected route (SpecBearer) *)

OtherSecret == <<"key", "other jwt">>

\* jwt.sign: the payload and its HS256 signature under a secret
jwtSign(payload, secret) ==
    [wellFormed |-> TRUE, payload |-> payload, signature |-> <<"hs256", secret, payload>>]

\* the token generateAccessToken hands out, as it travels in a header
Encoded(token) ==
    jwtSign([sub |-> token.sub, email |-> token.email, type |-> token.type,
             exp |-> token.exp], token.signedWith)

\* jwt.verify: the payload, or the error thrown; the signature is checked before
\* the expiry
jwtVerify(token, secret) ==
    IF ~token.wellFormed THEN [ok |-> FALSE, name |-> "JsonWebTokenError"]
    ELSE IF token.signature # <<"hs256", secret, token.payload>>
    THEN [ok |-> FALSE, name |-> "JsonWebTokenError"]
    ELSE IF now >= token.payload.exp THEN [ok |-> FALSE, name |-> "TokenExpiredError"]
    ELSE [ok |-> TRUE, payload |-> token.payload]

\* a verification that does not look at the expiry
verifyAccessTokenForever(token) ==
    IF ~token.wellFormed \/ token.signature # <<"hs256", JwtSecret, token.payload>>
    THEN [ok |-> FALSE, name |-> "JsonWebTokenError"]
    ELSE [ok |-> TRUE, payload |-> token.payload]

verifyAccessToken(token) ==
    LET verified == jwtVerify(token, JwtSecret)
    IN IF ~verified.ok THEN verified
       ELSE IF verified.payload.type # "access" THEN [ok |-> FALSE, name |-> "Error"]
       ELSE verified

\* a middleware that also asks for a refresh record of the account that is not
\* revoked
requireAuthWithSession(header) ==
    IF header.scheme # "Bearer "
    THEN [ok |-> FALSE, resp |-> Status(401, [error |-> "Access token required"])]
    ELSE LET verified == verifyAccessToken(header.token)
         IN IF verified.ok /\ \E r \in refreshTokens :
                                  r.userId = verified.payload.sub /\ ~r.revoked
            THEN [ok |-> TRUE, userId |-> verified.payload.sub,
                  userEmail |-> verified.payload.email]
            ELSE [ok |-> FALSE, resp |-> Status(401, [error |-> "Invalid access token"])]

\* requireAuth: the account of the request, or the 401 sent instead of next()
requireAuth(header) ==
    IF header.scheme # "Bearer "
    THEN [ok |-> FALSE, resp |-> Status(401, [error |-> "Access token required"])]
    ELSE LET verified == verifyAccessToken(header.token)
         IN IF verified.ok
            THEN [ok |-> TRUE, userId |-> verified.payload.sub,
                  userEmail |-> verified.payload.email]
            ELSE IF verified.name = "TokenExpiredError"
            THEN [ok |-> FALSE,
                  resp |-> Status(401, [error |-> "Access token expired",
                                        code |-> "TOKEN_EXPIRED"])]
            ELSE [ok |-> FALSE, resp |-> Status(401, [error |-> "Invalid access token"])]

\* a request to a protected route: the handler runs as the account of the token,
\* or the 401 of requireAuth is the answer
Protected(header, Handler(_)) ==
    LET auth == requireAuth(header)
    IN IF auth.ok
       THEN Handler(auth.userId)
       ELSE /\ req' = [op |-> "refused", header |-> header]
            /\ resp' = auth.resp
            /\ UNCHANGED <<orgVars, authVars, vaultVars, now, ids, procs, hist>>

\* the Authorization headers clients send: none, another scheme, and bearer
\* tokens of either type, signed with the secret or another one, expiring at any
\* time, as signed, with the subject rewritten, or not a JWT at all
Payloads ==
    {[sub |-> userId, email |-> users[userId].email, type |-> type, exp |-> exp] :
        userId \in DOMAIN users, type \in {"access", "refresh"},
        exp \in 0..(MaxVaultTime + 1)}
NotAJwt == [wellFormed |-> FALSE, payload |-> <<>>, signature |-> <<>>]
Tampered(token) ==
    [token EXCEPT !.payload.sub = CHOOSE userId \in DOMAIN users : userId # @]
BearerTokens ==
    LET signed == {jwtSign(payload, secret) :
                      payload \in Payloads, secret \in {JwtSecret, OtherSecret}}
    IN signed \cup {Tampered(token) : token \in {jwtSign(payload, JwtSecret) :
                                                      payload \in Payloads}}
              \cup {NotAJwt}
Headers ==
    {[scheme |-> scheme, token |-> NotAJwt] : scheme \in {Undef, "Basic ", "bearer "}}
        \cup {[scheme |-> "Bearer ", token |-> token] : token \in BearerTokens}

MaxBearerAudit == 2

NextBearer ==
    \/ \E header \in Headers, id \in EntryIds :
          /\ Protected(header, LAMBDA userId : GetPassword(userId, id))
          /\ AuditWithin(MaxBearerAudit)
    \/ Tick /\ now < MaxVaultTime

SpecBearer == InitVault /\ [][NextBearer]_vars

\* the words of the claim
CorrectlySigned(token) ==
    token.wellFormed /\ token.signature = <<"hs256", JwtSecret, token.payload>>
Expired(token) == token.payload.exp <= now
Admissible(header) ==
    /\ header.scheme = "Bearer "
    /\ CorrectlySigned(header.token)
    /\ ~Expired(header.token)
    /\ header.token.payload.type = "access"

Stores == <<orgVars, authVars, vaultVars>>

\* C24: a request whose header is missing, is not a Bearer header or carries a
\* token that is tampered, signed with another secret, expired or not of type
\* access is answered 401 without running the handler and without changing
\* state; the body has the code TOKEN_EXPIRED exactly when the header is a Bearer
\* header whose token is well-formed, correctly signed and expired
C24_BadBearerRefused ==
    [][\A header \in Headers, id \in EntryIds :
          /\ Stepped
          /\ ~Admissible(header)
          /\ Protected(header, LAMBDA userId : GetPassword(userId, id))
          => /\ req' = [op |-> "refused", header |-> header]
             /\ resp'.status = 401
             /\ Stores' = Stores
             /\ ("code" \in DOMAIN resp'.body /\ resp'.body.code = "TOKEN_EXPIRED")
                   <=> /\ header.scheme = "Bearer "
                       /\ CorrectlySigned(header.token)
                       /\ Expired(header.token)
             /\ DOMAIN resp'.body \subseteq {"error", "code"}]_vars

\* an expired token of the owner of an entry was refused with the code
C24_Witness ==
    /\ req.op = "refused"
    /\ resp.status = 401
    /\ "code" \in DOMAIN resp.body
    /\ resp.body.code = "TOKEN_EXPIRED"
    /\ req.header.token.payload.sub = 2
    /\ 1 \in OwnedBy(2)

\* a token with a rewritten subject that has not expired was refused without a code
C24_TamperedWitness ==
    /\ req.op = "refused"
    /\ req.header.scheme = "Bearer "
    /\ req.header.token.wellFormed
    /\ req.header.token.signature[2] = JwtSecret
    /\ req.header.token.signature[3] # req.header.token.payload
    /\ req.header.token.payload.exp > now
    /\ "code" \notin DOMAIN resp.body

\* a token of the right account and type, not expired, ran the handler
C24_AdmittedWitness ==
    /\ req.op = "get"
    /\ resp.status = 200
    /\ Len(auditLogs) = 2

-----------------------------------------------------------------------------
(* Requests that name entries, tags and collections of either account
   (SpecOrganize) *)

MaxOrganizeAudit == 1

\* two accounts; the second owns entry 1, which carries its tag 2; the first owns
\* entry 2, collection c1 and tag 1
InitOrganize ==
    /\ TwoAccounts
    /\ now = 1
    /\ vaultEntries = Inserted(<<>>, 0, <<createVaultEntry(2, FirstBody, "iv1").row,
                                          createVaultEntry(1, FirstBody, "iv1").row>>)
    /\ sharedLinks = <<>>
    /\ auditLogs = <<>>
    /\ ids = [NoIds EXCEPT !.user = 2, !.entry = 2, !.tag = 2, !.collection = 1]
    /\ req = NoReq
    /\ resp = NoResp
    /\ procs = <<>>
    /\ hist = NoHist
    /\ collections = (collectionIdOf(1) :> createCollection(1, [name |-> "Work"]))
    /\ tags = [t \in 1..2 |-> [userId |-> t, name |-> "work", color |-> Null,
                               createdAt |-> now]]
    /\ vaultEntryTags = {[entryId |-> 1, tagId |-> 2]}

\* the lists of ids a client sends: one id, or every id there is
IdSets == {{id} : id \in EntryIds} \cup {EntryIds}
TagIdSets == {DOMAIN tags}

\* the first account sends every request; the second, the owner of entry 1, those
\* that leave no audit record
NextOrganize ==
    \/ \E userId \in DOMAIN users, id \in EntryIds : PostFavorite(userId, id)
    \/ \E id \in EntryIds : PostPin(1, id)
    \/ \E id \in EntryIds :
          /\ PostShare(1, [NoShareBody EXCEPT !.entryId = id])
          /\ AuditWithin(MaxOrganizeAudit)
    \/ \E userId \in DOMAIN users, id \in EntryIds, tagIds \in TagIdSets :
          PostEntryTags(userId, id, [isArray |-> TRUE, tagIds |-> tagIds])
    \/ \E id \in EntryIds, tagIds \in TagIdSets :
          DeleteEntryTags(1, id, [isArray |-> TRUE, tagIds |-> tagIds])
    \/ \E userId \in DOMAIN users, c \in CollectionIds \cup {"null"}, entryIds \in IdSets :
          PostMoveEntries(userId, c, [isArray |-> TRUE, entryIds |-> entryIds])
    \/ \E entryIds \in IdSets :
          /\ PostBulkDelete(1, [isArray |-> TRUE, entryIds |-> entryIds])
          /\ AuditWithin(MaxOrganizeAudit)
    \/ \E id \in EntryIds :
          /\ PutPassword(1, id, [NoBody EXCEPT !.title = "Mail"], "iv2")
          /\ AuditWithin(MaxOrganizeAudit)
    \/ \E id \in EntryIds : DeletePassword(1, id) /\ AuditWithin(MaxOrganizeAudit)
    \/ /\ PostImport(1, [isArray |-> TRUE, entries |-> <<NoSecretEntry>>], <<"iv1">>)
       /\ AuditWithin(MaxOrganizeAudit)

SpecOrganize == InitOrganize /\ [][NextOrganize]_vars

\* the entry a request names, and whether the request names something that does
\* not exist or is not the caller's
TargetEntry(request) == IF request.op = "share" THEN request.body.entryId ELSE request.id
EntryOps == {"update", "delete", "favorite", "pin", "share", "add-tags"}
BadTarget(request) ==
    \/ /\ request.op \in EntryOps
       /\ TargetEntry(request) \notin OwnedBy(request.userId)
    \/ /\ request.op = "move"
       /\ request.id # "null"
       /\ ~OwnsCollection(request.userId, request.id)

\* C25: every operation whose target entry or collection does not exist or is not
\* owned by the caller is answered 404 and changes nothing, toggleFavourite,
\* togglePinned, createShare, addTagsToEntry and moveEntriesToCollection as well
\* as get, update and delete
C25_MissingTargetIs404 ==
    [][Stepped /\ BadTarget(req') =>
          /\ resp'.status = 404
          /\ Stores' = Stores]_vars

\* what the code does instead: nothing changes, and the answer is 404 for update
\* and delete, 500 with the message of the throw for the others
C25_MissingTargetChangesNothing ==
    [][Stepped /\ BadTarget(req') =>
          /\ Stores' = Stores
          /\ resp'.status = IF req'.op \in {"update", "delete"} THEN 404 ELSE 500
          /\ req'.op \in {"favorite", "pin", "share", "add-tags"} =>
                resp'.body = [error |-> EntryNotFound]
          /\ req'.op = "move" => resp'.body = [error |-> "Collection not found"]]_vars

\* a toggle of an entry of the other account was answered 500
C25_ToggleAnswered500 ==
    /\ req.op = "favorite"
    /\ req.userId = 1
    /\ req.id \in OwnedBy(2)
    /\ resp = Status(500, [error |-> EntryNotFound])


\* the rows that belong to an entry: its links and its tags
LinksOf(links, id) == {l \in DOMAIN links : links[l].entryId = id}
TagsOf(rows, id) == {t \in rows : t.entryId = id}

\* C26: no request of an account changes, deletes, tags or shares an entry of
\* another account; bulk delete removes exactly the listed ids the caller owns and
\* answers their number, and a move changes exactly the listed ids the caller owns
C26_WriteIsolation ==
    [][Stepped =>
          /\ \A id \in DOMAIN vaultEntries \ OwnedBy(req'.userId) :
                /\ id \in DOMAIN vaultEntries'
                /\ vaultEntries'[id] = vaultEntries[id]
                /\ LinksOf(sharedLinks', id) = LinksOf(sharedLinks, id)
                /\ \A l \in LinksOf(sharedLinks, id) : sharedLinks'[l] = sharedLinks[l]
                /\ TagsOf(vaultEntryTags', id) = TagsOf(vaultEntryTags, id)
          /\ req'.op = "bulk-delete" =>
                /\ DOMAIN vaultEntries \ DOMAIN vaultEntries'
                      = req'.body.entryIds \cap OwnedBy(req'.userId)
                /\ resp'.body.count
                      = Cardinality(req'.body.entryIds \cap OwnedBy(req'.userId))
                /\ \A id \in DOMAIN vaultEntries' : vaultEntries'[id] = vaultEntries[id]
          /\ req'.op = "move" /\ resp'.status = 200 =>
                /\ DOMAIN vaultEntries' = DOMAIN vaultEntries
                /\ \A id \in DOMAIN vaultEntries :
                      IF id \in req'.body.entryIds \cap OwnedBy(req'.userId)
                      THEN vaultEntries'[id] =
                              [vaultEntries[id] EXCEPT
                                 !.collectionId = IF req'.id = "null" THEN Null ELSE req'.id,
                                 !.updatedAt = now]
                      ELSE vaultEntries'[id] = vaultEntries[id]
                /\ resp'.body.count
                      = Cardinality(req'.body.entryIds \cap OwnedBy(req'.userId))]_vars

\* a bulk delete that listed the entries of both accounts removed the caller's
\* only, the other entry tagged and a favourite as its owner left it
C26_Witness ==
    /\ req.op = "bulk-delete"
    /\ req.userId = 1
    /\ req.body.entryIds = {1, 2, 3}
    /\ resp.body.count = 1
    /\ DOMAIN vaultEntries = {1}
    /\ vaultEntries[1].userId = 2
    /\ vaultEntries[1].isFavorite
    /\ TagsOf(vaultEntryTags, 1) # {}

\* a move that listed the entries of both accounts moved the caller's only
C26_MoveWitness ==
    /\ req.op = "move"
    /\ req.userId = 1
    /\ req.body.entryIds = {1, 2, 3}
    /\ resp = Status(200, [count |-> 1])
    /\ vaultEntries[2].collectionId = collectionIdOf(1)
    /\ vaultEntries[1].collectionId = Null

-----------------------------------------------------------------------------
(* Entries saved with a collectionId (SpecFiling) *)

MaxFilingAudit == 2

InCollection(collectionId) ==
    [NoBody EXCEPT !.title = "Gmail", !.password = PwStrong, !.collectionId = collectionId]

\* the collection ids a client may send: those handed out, and one that was not
AnyCollectionIds == {collectionIdOf(n) : n \in 1..(ids.collection + 1)}

NextFiling ==
    \/ \E userId \in DOMAIN users : PostCollection(userId, [name |-> "Work"])
    \/ \E userId \in DOMAIN users, c \in AnyCollectionIds :
          PostPassword(userId, InCollection(c), "iv1") /\ AuditWithin(MaxFilingAudit)
    \/ \E userId \in DOMAIN users, c \in AnyCollectionIds :
          PostDirectSave(userId, InCollection(c), "iv1") /\ AuditWithin(MaxFilingAudit)
    \/ \E userId \in DOMAIN users, c \in AnyCollectionIds :
          /\ PostImport(userId, [isArray |-> TRUE, entries |-> <<InCollection(c)>>], <<"iv1">>)
          /\ AuditWithin(MaxFilingAudit)
    \/ \E userId \in DOMAIN users, id \in EntryIds, c \in AnyCollectionIds :
          /\ PutPassword(userId, id, [NoBody EXCEPT !.collectionId = c], "iv2")
          /\ AuditWithin(MaxFilingAudit)
    \/ \E userId \in DOMAIN users, c \in AnyCollectionIds, id \in EntryIds :
          PostMoveEntries(userId, c, [isArray |-> TRUE, entryIds |-> {id}])
    \/ \E userId \in DOMAIN users, c \in CollectionIds : DeleteCollection(userId, c)

SpecFiling == InitVault /\ [][NextFiling]_vars

\* C27: every entry's collectionId is null or the id of a collection of the
\* account that owns the entry
C27_CollectionOfSameAccount ==
    \A id \in DOMAIN vaultEntries :
       \/ vaultEntries[id].collectionId = Null
       \/ OwnsCollection(vaultEntries[id].userId, vaultEntries[id].collectionId)

\* what the code keeps: the collectionId is null or the id of a collection that
\* exists, and a move puts entries in a collection of the caller only
C27_CollectionExists ==
    /\ [](\A id \in DOMAIN vaultEntries : collectionExists(vaultEntries[id].collectionId))
    /\ [][Stepped /\ req'.op = "move" /\ resp'.status = 200 =>
             OwnsCollection(req'.userId, req'.id)]_vars

\* an entry was created in a collection of another account
C27_FiledUnderAnother ==
    /\ req.op = "create"
    /\ resp.status = 201
    /\ \E id \in DOMAIN vaultEntries :
          /\ vaultEntries[id].collectionId = req.body.collectionId
          /\ vaultEntries[id].userId = req.userId
          /\ collections[req.body.collectionId].userId # req.userId

-----------------------------------------------------------------------------
(* findOrCreateOAuthUser, await by await (SpecOAuthConc) *)

\* a sign-in that is not running
IdleOAuth ==
    [pc |-> "idle", provider |-> "github", providerId |-> "", email |-> NoEmail, id |-> 0,
     resp |-> NoResp]

\* the rows of the unique index OAuthProvider_provider_providerId_key for a pair
linksOf(provider, providerId) ==
    {l \in oauthProviders : l.provider = provider /\ l.providerId = providerId}

\* the passport strategy calls findOrCreateOAuthUser with the profile
OAuthStart(p, provider, providerId, email) ==
    /\ procs[p].pc \in {"idle", "done"}
    /\ ids.user + Cardinality(Running) < MaxUsers
    /\ ids.token + Cardinality(Running) < MaxTokens
    /\ procs' = [procs EXCEPT ![p] = [IdleOAuth EXCEPT !.pc = "find-link",
                                                        !.provider = provider,
                                                        !.providerId = providerId,
                                                        !.email = email]]
    /\ UNCHANGED <<orgVars, authVars, vaultVars, now, ids, req, resp, hist>>

\* await prisma.oAuthProvider.findUnique({ where: { provider_providerId } })
OAuthFindLink(p) ==
    LET linked == linksOf(procs[p].provider, procs[p].providerId)
    IN /\ procs[p].pc = "find-link"
       /\ procs' = [procs EXCEPT ![p] =
                      IF linked # {}
                      THEN [@ EXCEPT !.pc = "tokens",
                                     !.id = (CHOOSE l \in linked : TRUE).userId]
                      ELSE [@ EXCEPT !.pc = "find-user"]]
       /\ UNCHANGED <<orgVars, authVars, vaultVars, now, ids, req, resp, hist>>

\* email ? await prisma.user.findUnique({ where: { email } }) : null, and for an
\* account found without a wrapped key the prisma.user.update that gives it one
OAuthFindUser(p) ==
    LET existing == IF procs[p].email = NoEmail THEN {} ELSE findUserByEmail(procs[p].email)
        id == CHOOSE u \in existing : TRUE
    IN /\ procs[p].pc = "find-user"
       /\ procs' = [procs EXCEPT ![p] =
                      IF existing = {} THEN [@ EXCEPT !.pc = "create-user"]
                      ELSE [@ EXCEPT !.pc = "create-link", !.id = id]]
       /\ users' = IF existing # {} /\ users[id].wrappedKey = NoWrappedKey
                   THEN [users EXCEPT ![id].wrappedKey =
                           wrapKey(generateUserKey(id), MasterKey, "iv1")]
                   ELSE users
       /\ UNCHANGED <<orgVars, oauthProviders, refreshTokens, vaultVars, now, ids, req, resp,
                      hist>>

\* await prisma.user.create: the unique index on email refuses a second row with
\* the email, and lets any number of rows without email in
OAuthCreateUser(p) ==
    LET id == ids.user + 1
    IN /\ procs[p].pc = "create-user"
       /\ IF procs[p].email # NoEmail /\ findUserByEmail(procs[p].email) # {}
          THEN /\ procs' = [procs EXCEPT ![p].pc = "done",
                                         ![p].resp = [throws |-> UniqueConstraintFailed]]
               /\ UNCHANGED <<users, ids>>
          ELSE /\ users' = (id :> [email |-> procs[p].email, passwordHash |-> NoHash,
                                   name |-> "N",
                                   wrappedKey |-> wrapKey(generateUserKey(id), MasterKey,
                                                          "iv1"),
                                   createdAt |-> now]) @@ users
               /\ ids' = [ids EXCEPT !.user = id]
               /\ procs' = [procs EXCEPT ![p].pc = "create-link", ![p].id = id]
       /\ UNCHANGED <<orgVars, oauthProviders, refreshTokens, vaultVars, now, req, resp, hist>>

\* await prisma.oAuthProvider.create: the unique index on (provider, providerId)
\* refuses a second row for the pair
OAuthCreateLink(p) ==
    /\ procs[p].pc = "create-link"
    /\ IF linksOf(procs[p].provider, procs[p].providerId) # {}
       THEN /\ procs' = [procs EXCEPT
                           ![p].pc = "done",
                           ![p].resp = [throws |-> "Unique constraint failed on the fields: (provider,providerId)"]]
            /\ UNCHANGED oauthProviders
       ELSE /\ oauthProviders' = oauthProviders \cup
                  {[provider |-> procs[p].provider, providerId |-> procs[p].providerId,
                    userId |-> procs[p].id]}
            /\ procs' = [procs EXCEPT ![p].pc = "tokens"]
    /\ UNCHANGED <<orgVars, users, refreshTokens, vaultVars, now, ids, req, resp, hist>>

\* await createTokensForUser(user), then done(null, result)
OAuthTokens(p) ==
    LET id == procs[p].id
        tokens == createTokensForUser(id, users[id])
    IN /\ procs[p].pc = "tokens"
       /\ refreshTokens' = refreshTokens \cup {tokens.row}
       /\ ids' = [ids EXCEPT !.token = @ + 1]
       /\ procs' = [procs EXCEPT
                      ![p].pc = "done",
                      ![p].resp = WithCookie(302,
                          [user |-> formatUserResponse(id, users[id]),
                           accessToken |-> tokens.accessToken],
                          tokens.refreshToken)]
       /\ UNCHANGED <<orgVars, users, oauthProviders, vaultVars, now, req, resp, hist>>

InitOAuthConc ==
    /\ users = <<>>
    /\ oauthProviders = {}
    /\ refreshTokens = {}
    /\ vaultEntries = <<>>
    /\ sharedLinks = <<>>
    /\ auditLogs = <<>>
    /\ now = 0
    /\ ids = NoIds
    /\ req = NoReq
    /\ resp = NoResp
    /\ procs = [p \in 1..MaxProcs |-> IdleOAuth]
    /\ hist = NoHist
    /\ NoOrganization

NextOAuthConc ==
    \/ \E p \in DOMAIN procs, providerId \in {"g1", "g2"}, email \in {NoEmail, EmailA} :
          OAuthStart(p, "github", providerId, email)
    \/ \E p \in DOMAIN procs : OAuthFindLink(p)
    \/ \E p \in DOMAIN procs : OAuthFindUser(p)
    \/ \E p \in DOMAIN procs : OAuthCreateUser(p)
    \/ \E p \in DOMAIN procs : OAuthCreateLink(p)
    \/ \E p \in DOMAIN procs : OAuthTokens(p)

SpecOAuthConc == InitOAuthConc /\ [][NextOAuthConc]_vars

HasCredential(id) == users[id].passwordHash # NoHash
HasLink(id) == \E l \in oauthProviders : l.userId = id
Pairs == {<<l.provider, l.providerId>> : l \in oauthProviders}
        \cup {<<procs[p].provider, procs[p].providerId>> :
                 p \in {p \in DOMAIN procs : procs[p].pc # "idle"}}
\* the accounts made or linked by the sign-ins of a pair
AccountsOf(pair) ==
    {procs[p].id : p \in {p \in DOMAIN procs :
                            /\ <<procs[p].provider, procs[p].providerId>> = pair
                            /\ procs[p].id # 0}}
        \cup {l.userId : l \in linksOf(pair[1], pair[2])}

\* C28: once the sign-ins have returned, every account has a credential hash or a
\* link, every account a sign-in returned has a wrapped key, and the sign-ins of a
\* (provider, providerId) pair left one account and one link, also when they
\* interleaved or when the creation of the link failed after the account's
C28_FindOrLinkIsAtomic ==
    Running = {} =>
       /\ \A id \in DOMAIN users : HasCredential(id) \/ HasLink(id)
       /\ \A p \in DOMAIN procs :
             procs[p].pc = "done" /\ "status" \in DOMAIN procs[p].resp =>
                users[procs[p].id].wrappedKey # NoWrappedKey
       /\ \A pair \in Pairs :
             /\ Cardinality(AccountsOf(pair)) <= 1
             /\ Cardinality(linksOf(pair[1], pair[2])) <= 1

\* what the code keeps: one link per pair, a wrapped key on every account
\* returned, and a credential hash or a link on every account whose sign-in
\* returned without a throw
C28_OneLinkPerPair ==
    /\ \A pair \in Pairs : Cardinality(linksOf(pair[1], pair[2])) <= 1
    /\ \A p \in DOMAIN procs :
          procs[p].pc = "done" /\ "status" \in DOMAIN procs[p].resp =>
             /\ users[procs[p].id].wrappedKey # NoWrappedKey
             /\ HasLink(procs[p].id)

\* two sign-ins of one pair without email have returned, one of them with a
\* throw, and left an account with no credential hash and no link
C28_OrphanAccount ==
    /\ Running = {}
    /\ \E p \in DOMAIN procs : "throws" \in DOMAIN procs[p].resp
    /\ \E id \in DOMAIN users : ~HasCredential(id) /\ ~HasLink(id)
    /\ Cardinality(Pairs) = 1

-----------------------------------------------------------------------------
(* Bearer tokens after the refresh records are revoked (SpecRevocation) *)

MaxRevocationAudit == 2

\* revokeAllUserTokens(userId), called on behalf of the account
RevokeAll(userId) ==
    /\ req' = [op |-> "revoke-all", userId |-> userId]
    /\ refreshTokens' = revokeAllUserTokens(userId)
    /\ resp' = NoResp
    /\ UNCHANGED <<orgVars, users, oauthProviders, vaultVars, now, ids, procs, hist>>

\* the bearer tokens handed out so far: a sign-in or a refresh at time t gives one
\* that expires at t + AccessLifetime
Issued ==
    {[scheme |-> "Bearer ",
      token |-> Encoded([generateAccessToken(userId, users[userId].email)
                            EXCEPT !.exp = t + AccessLifetime])] :
        userId \in DOMAIN users, t \in 0..now}

NextRevocation ==
    \/ \E cookie \in Cookies : PostLogout(cookie)
    \/ \E userId \in DOMAIN users : RevokeAll(userId)
    \/ \E cookie \in Cookies : PostRefresh(cookie)
    \/ \E header \in Issued, id \in DOMAIN vaultEntries :
          /\ Protected(header, LAMBDA userId : GetPassword(userId, id))
          /\ AuditWithin(MaxRevocationAudit)
    \/ Tick /\ now < MaxVaultTime

SpecRevocation == InitVault /\ [][NextRevocation]_vars

Revoked(userId) ==
    /\ \E r \in refreshTokens : r.userId = userId
    /\ \A r \in refreshTokens : r.userId = userId => r.revoked

\* C29: a bearer token handed out before a logout or revokeAllUserTokens opens
\* the protected routes, the owner's secret included, until its own expiry and
\* whatever the refresh records say; after the revocation the refresh token
\* yields no new bearer token
C29_RevocationSparesBearer ==
    [][/\ \A header \in Issued, id \in DOMAIN vaultEntries :
             /\ Stepped
             /\ Protected(header, LAMBDA userId : GetPassword(userId, id))
             => IF now < header.token.payload.exp
                THEN /\ req' = [op |-> "get", userId |-> header.token.payload.sub, id |-> id]
                     /\ id \in OwnedBy(header.token.payload.sub) =>
                           /\ resp'.status = 200
                           /\ resp'.body.entry.password = PlaintextOf(vaultEntries[id])
                ELSE resp' = Status(401, [error |-> "Access token expired",
                                          code |-> "TOKEN_EXPIRED"])
       /\ req'.op \in {"logout", "revoke-all"} =>
             /\ \A r \in refreshTokens' :
                   \/ r \in refreshTokens
                   \/ r.revoked /\ [r EXCEPT !.revoked = FALSE] \in refreshTokens
             /\ UNCHANGED <<users, oauthProviders, vaultVars>>
       /\ req'.op = "refresh" /\ ActiveRecords(req'.cookie) = {} =>
             /\ resp'.status = 401
             /\ "accessToken" \notin DOMAIN resp'.body]_vars

\* the owner read the secret with a bearer token after every refresh record of
\* the account was revoked
C29_Witness ==
    /\ req.op = "get"
    /\ resp.status = 200
    /\ resp.body.entry.password = FirstBody.password
    /\ Revoked(req.userId)

\* a refresh with the token of a revoked record was refused
C29_RefreshWitness ==
    /\ req.op = "refresh"
    /\ resp.status = 401
    /\ \E r \in refreshTokens : r.tokenHash = hashToken(req.cookie) /\ r.revoked

-----------------------------------------------------------------------------
(* A share link after its revocation or the deletion of its entry
   (SpecShareEnd) *)

MaxShareEndAudit == 3

TwoViews == [NoShareBody EXCEPT !.entryId = 1, !.maxViews = 2, !.expiresInHours = 2]

\* two accounts, the entry of the second one, and a share of it with two views
InitShareEnd ==
    /\ TwoAccounts
    /\ now = 0
    /\ vaultEntries = Inserted(<<>>, 0, <<createVaultEntry(2, FirstBody, "iv1").row>>)
    /\ sharedLinks = Inserted(<<>>, 0,
                        <<createShareLink(2, TwoViews, generateSecureToken(3)).row>>)
    /\ auditLogs = <<logAction(2, "create", 1, FirstBody.title, NoDetails),
                     logAction(2, "share", 1, FirstBody.title,
                               [maxViews |-> 2, expiresAt |-> 2])>>
    /\ ids = [NoIds EXCEPT !.user = 2, !.token = 2, !.entry = 1, !.link = 1]
    /\ req = NoReq
    /\ resp = NoResp
    /\ procs = <<>>
    /\ hist = [NoHist EXCEPT !.shares = <<Remembered(generateSecureToken(3), TwoViews)>>]
    /\ NoOrganization

NextShareEnd ==
    \/ \E token \in ShareTokens : GetShare(token, "ip")
    \/ \E userId \in DOMAIN users, l \in 1..(ids.link + 1) : DeleteShare(userId, l)
    \/ \E userId \in DOMAIN users, id \in EntryIds :
          DeletePassword(userId, id) /\ AuditWithin(MaxShareEndAudit)
    \/ \E userId \in DOMAIN users : GetShares(userId)
    \/ Tick

SpecShareEnd == InitShareEnd /\ [][NextShareEnd]_vars

\* the links handed out under a raw token, and those of them that are gone
LinksUnder(token) == {l \in DOMAIN hist.shares : hist.shares[l].token = token}
Gone(token) == LinksUnder(token) # {} /\ LinksUnder(token) \cap DOMAIN sharedLinks = {}

NotFoundShare == Status(404, [error |-> "Share link not found or expired"])

\* C30: once its link was revoked by the owner, or its entry deleted, a token is
\* answered 404 with nothing of the entry and nothing changed, whatever views and
\* time it had left; the deletion of an entry takes its links with it; a
\* revocation by an account that did not issue the link removes nothing, and the
\* token is still answered with the view while it has views and time left
C30_ShareDiesWithLinkOrEntry ==
    [][/\ req'.op = "access" /\ Gone(req'.token) =>
             /\ resp' = NotFoundShare
             /\ Stores' = Stores
       /\ req'.op = "access" /\ Stepped /\ Consumable(req'.token) # {} =>
             /\ resp'.status = 200
             /\ resp'.body.entry.title = vaultEntries[1].title
       /\ req'.op = "revoke" /\ Stepped =>
             IF req'.id \in DOMAIN sharedLinks /\ sharedLinks[req'.id].userId = req'.userId
             THEN /\ resp'.status = 200
                  /\ DOMAIN sharedLinks' = DOMAIN sharedLinks \ {req'.id}
             ELSE /\ resp'.status = 404
                  /\ sharedLinks' = sharedLinks
       /\ req'.op = "delete" /\ Stepped /\ resp'.status = 200 =>
             /\ req'.id \notin DOMAIN vaultEntries'
             /\ \A l \in DOMAIN sharedLinks' : sharedLinks'[l].entryId # req'.id]_vars

\* a token whose link the owner revoked was refused with a view and time left
C30_Witness ==
    /\ req.op = "access"
    /\ resp = NotFoundShare
    /\ Gone(req.token)
    /\ 1 \in DOMAIN vaultEntries
    /\ hist.shares[1].views < TwoViews.maxViews
    /\ now < TwoViews.expiresInHours

\* a token whose entry was deleted was refused with a view and time left
C30_EntryDeletedWitness ==
    /\ req.op = "access"
    /\ resp = NotFoundShare
    /\ Gone(req.token)
    /\ 1 \notin DOMAIN vaultEntries
    /\ hist.shares[1].views < TwoViews.maxViews
    /\ now < TwoViews.expiresInHours

\* the other account asked to revoke the link, which is still there
C30_ForeignRevokeWitness ==
    /\ req.op = "revoke"
    /\ req.userId = 1
    /\ resp.status = 404
    /\ req.id \in DOMAIN sharedLinks
    /\ Consumable(hist.shares[req.id].token) # {}

====
